---- MODULE Spec2Model ----
(***************************************************************************)
(* Interaction core of the MapLibre handle library: the selection store    *)
(* (SelectionManager), the tool registry (ToolManager with BaseTool        *)
(* tools) and the handle store with its drag state machine                 *)
(* (HandleManager).                                                        *)
(*                                                                         *)
(* Coordinates are fixed-point integers.  One unit is half a grid quantum, *)
(* i.e. 0.0005 degree, so that the grid quantum 0.001 degree is GridSize   *)
(* = 2 units and pointer positions exist that lie off the grid.            *)
(***************************************************************************)
EXTENDS Integers, Sequences, FiniteSets, TLC

NULL == "null"

\* an optional value (T | null, or an optional property): <<>> or <<v>>
None == <<>>
Some(v) == <<v>>

(***************************************************************************)
(* Bounds of the model                                                     *)
(***************************************************************************)
\* feature ids (own or generated) are 1..MaxFeatureId
MaxFeatureId == 3
\* pointer coordinates range over -MaxCoord..MaxCoord
MaxCoord == 1
\* how many times one tool object may be handed to registerTool
MaxRegistrations == 2
\* how many times the SelectionTool may regenerate its handles
MaxRegenerations == 2
\* how many listener triples the SelectionTool may have on the HandleManager
MaxSubscriptions == 2
\* how many on() calls on one emitter may add a listener
MaxListenerAdds == 3

VARIABLES
    \* SelectionManager
    selectedFeatures,   \* Map<string, SelectedFeature> as a sequence in insertion order
    selectionBounds,    \* SelectionBounds | null, as an optional value
    selEmitted,         \* events emitted by the last SelectionManager call, in order
    selLast,            \* the last SelectionManager call, its id argument and whether it removed an entry
    \* ToolManager and its tools
    tools,              \* Map<string, Tool>: a function from the registered ids to tool objects
    activeTool,         \* the active-tool slot
    toolState,          \* Tool.state of every tool object
    toolForwarders,     \* per tool object: forwarding listeners added by registerTool
    toolLog,            \* calls made on tools by the last ToolManager call, in order
    toolLast,           \* the last ToolManager call or routed event, its input and result
    \* HandleManager
    handles,            \* Map<string, Handle>: a function from the stored ids to handles
    dragState,          \* the DragSession, as an optional value
    activeHandle,       \* id of the handle being dragged or NULL
    hmEmitted,          \* events emitted by the last HandleManager handler, in order
    hmLast,             \* the last HandleManager step: a pointer handler or a method call, the handle id it was given and what it returned
    hmListeners,        \* HandleManager.eventListeners: how many dragstart/drag/dragend listener triples of the SelectionTool it holds
    nextHandleId,       \* how many ids generateId has produced for the SelectionTool
    \* SelectionTool and the feature source it edits
    selectionTool,      \* the fields of the SelectionTool
    stLog,              \* the methods of its own the SelectionTool ran during the last input event, in order
    selSeen,            \* for each event in selEmitted, the handle store a listener saw when it was invoked
    sourceData,         \* the geometry of every feature in the map's feature source
    \* eventListeners of one event emitter
    evKind,             \* the class of the emitter: HandleManager, SelectionManager, BaseTool or ToolManager
    evListeners,        \* Map<type, Set<listener>>: for each event type the listeners in insertion order
    evClock,            \* how many on() calls have added a listener
    evRegAt,            \* for each type and listener, the on() call that registered it, 0 if it is not registered
    evInvoked,          \* the listeners the last emitEvent invoked, with the type each was given, in order
    evLast              \* the last call on the emitter and its event type

selVars == <<selectedFeatures, selectionBounds, selEmitted, selLast>>
toolVars == <<tools, activeTool, toolState, toolForwarders, toolLog, toolLast>>
hmVars == <<handles, dragState, activeHandle, hmEmitted, hmLast>>
evVars == <<evKind, evListeners, evClock, evRegAt, evInvoked, evLast>>
edVars == <<hmListeners, nextHandleId, selectionTool, stLog, selSeen, sourceData>>
vars == <<selVars, toolVars, hmVars, edVars, evVars>>

\* Map<string, T> whose values are never null: get, set, delete
EmptyMap == [k \in {} |-> NULL]
MapGet(m, k) == IF k \in DOMAIN m THEN m[k] ELSE NULL
MapPut(m, k, v) == [x \in DOMAIN m \cup {k} |-> IF x = k THEN v ELSE m[x]]
MapRemove(m, k) == [x \in DOMAIN m \ {k} |-> m[x]]

Min(a, b) == IF a <= b THEN a ELSE b
Max(a, b) == IF a >= b THEN a ELSE b

(***************************************************************************)
(* SelectionManager                                                        *)
(***************************************************************************)
\* feature.id absent (or the empty string)
NoId == 0
FeatureIds == 1..MaxFeatureId

\* The GeoJSON features the map can hand to select().  area and length are
\* the values turf.area / turf.length return for the geometry.
Features ==
    { [id |-> 1, gtype |-> "Polygon", box |-> <<0, 0, 2, 2>>, area |-> 4, length |-> 8],
      [id |-> 1, gtype |-> "Polygon", box |-> <<0, 0, 4, 2>>, area |-> 8, length |-> 12],
      [id |-> 2, gtype |-> "LineString", box |-> <<-2, -2, 0, 2>>, area |-> 0, length |-> 5],
      [id |-> NoId, gtype |-> "Point", box |-> <<4, -2, 4, -2>>, area |-> 0, length |-> 0] }

SourceIds == {"srcA"}
LayerIds == {"layerA"}

RECURSIVE SeqFold(_, _, _)
\* left fold of a binary operator over a sequence
SeqFold(Op(_, _), acc, s) ==
    IF s = <<>> THEN acc ELSE SeqFold(Op, Op(acc, Head(s)), Tail(s))

MergeBox(b, f) ==
    <<Min(b[1], f.box[1]), Min(b[2], f.box[2]), Max(b[3], f.box[3]), Max(b[4], f.box[4])>>

AddArea(a, f) ==
    IF f.gtype \in {"Polygon", "MultiPolygon"} THEN a + f.area ELSE a

AddPerimeter(p, f) ==
    IF f.gtype \in {"Polygon", "MultiPolygon", "LineString", "MultiLineString"}
    THEN p + f.length ELSE p

\* calculateSelectionBounds over a selection (a sequence of SelectedFeature)
calculateSelectionBounds(sel) ==
    IF Len(sel) = 0 THEN None
    ELSE LET fs == [i \in 1..Len(sel) |-> sel[i].feature]
             bbox == SeqFold(MergeBox, fs[1].box, fs)
         IN Some([bbox |-> bbox,
                  center |-> <<(bbox[1] + bbox[3]) \div 2, (bbox[2] + bbox[4]) \div 2>>,
                  area |-> SeqFold(AddArea, 0, fs),
                  perimeter |-> SeqFold(AddPerimeter, 0, fs)])

SelIds(sel) == [i \in 1..Len(sel) |-> sel[i].id]

IndexOfId(sel, id) ==
    IF \E i \in 1..Len(sel) : sel[i].id = id
    THEN CHOOSE i \in 1..Len(sel) : sel[i].id = id
    ELSE 0

\* Map.set: an existing key keeps its place, a new key is appended
MapSet(sel, entry) ==
    LET i == IndexOfId(sel, entry.id)
    IN IF i = 0 THEN Append(sel, entry) ELSE [sel EXCEPT ![i] = entry]

\* Map.delete
MapDelete(sel, id) ==
    LET keep == {i \in 1..Len(sel) : sel[i].id # id}
        Nth(k) == CHOOSE i \in keep : Cardinality({j \in keep : j < i}) = k - 1
    IN [k \in 1..Cardinality(keep) |-> sel[Nth(k)]]

\* emitEvent with the change listeners notified first
SelEmitMut(type, sel, bounds) ==
    << [type |-> "change", selected |-> SelIds(sel), bounds |-> bounds],
       [type |-> type, selected |-> SelIds(sel), bounds |-> bounds] >>

\* emitEvent: the specific type, then the synthetic change event
SelEmit(type, sel, bounds) ==
    << [type |-> type, selected |-> SelIds(sel), bounds |-> bounds],
       [type |-> "change", selected |-> SelIds(sel), bounds |-> bounds] >>

\* the loop that marks all entries as not current
ClearCurrentMut(sel) ==
    sel

ClearCurrent(sel) ==
    [i \in 1..Len(sel) |-> [sel[i] EXCEPT !.isCurrentSelection = FALSE]]

\* the bounds stored by deselect after a removal
DeselectBoundsMut(sel) ==
    selectionBounds

DeselectBounds(sel) ==
    calculateSelectionBounds(sel)

\* select(feature, sourceId, layerId, setAsCurrent) on the selection sel0:
\* the selection and bounds it stores, the events it emits and the call
\* record; genId is the id Math.random produces when the feature has none
SelectFrom(sel0, feature, sourceId, layerId, setAsCurrent, genId) ==
    LET featureId == IF feature.id # NoId THEN feature.id ELSE genId
        cleared == IF setAsCurrent THEN ClearCurrent(sel0) ELSE sel0
        selectedFeature == [id |-> featureId, feature |-> feature, sourceId |-> sourceId,
                            layerId |-> layerId, selected |-> TRUE,
                            isCurrentSelection |-> setAsCurrent]
        sel == MapSet(cleared, selectedFeature)
        bounds == calculateSelectionBounds(sel)
    IN [sel |-> sel, bounds |-> bounds, emitted |-> SelEmit("select", sel, bounds),
        last |-> [op |-> "select", arg |-> featureId, result |-> FALSE]]

Select(feature, sourceId, layerId, setAsCurrent, genId) ==
    LET r == SelectFrom(selectedFeatures, feature, sourceId, layerId, setAsCurrent, genId)
    IN /\ selectedFeatures' = r.sel
       /\ selectionBounds' = r.bounds
       /\ selEmitted' = r.emitted
       /\ selLast' = r.last

\* deselect that recomputes and emits whether or not an entry was removed
DeselectMut(featureId) ==
    LET removed == IndexOfId(selectedFeatures, featureId) # 0
        sel == MapDelete(selectedFeatures, featureId)
        bounds == DeselectBounds(sel)
    IN /\ selLast' = [op |-> "deselect", arg |-> featureId, result |-> removed]
       /\ selectedFeatures' = sel
       /\ selectionBounds' = bounds
       /\ selEmitted' = SelEmit("deselect", sel, bounds)

Deselect(featureId) ==
    LET removed == IndexOfId(selectedFeatures, featureId) # 0
        sel == MapDelete(selectedFeatures, featureId)
        bounds == DeselectBounds(sel)
    IN /\ selLast' = [op |-> "deselect", arg |-> featureId, result |-> removed]
       /\ IF removed
          THEN /\ selectedFeatures' = sel
               /\ selectionBounds' = bounds
               /\ selEmitted' = SelEmit("deselect", sel, bounds)
          ELSE /\ selEmitted' = <<>>
               /\ UNCHANGED <<selectedFeatures, selectionBounds>>

\* clearSelection that returns early when nothing is selected
ClearSelectionMut ==
    /\ selectedFeatures' = <<>>
    /\ selectionBounds' = None
    /\ selEmitted' = IF selectedFeatures = <<>> THEN <<>> ELSE SelEmit("clear", <<>>, None)
    /\ selLast' = [op |-> "clear", arg |-> NoId, result |-> selectedFeatures # <<>>]

\* clearSelection(); it returns nothing, and the result kept in selLast is
\* whether the selection held an entry when it was called
ClearSelection ==
    /\ selectedFeatures' = <<>>
    /\ selectionBounds' = None
    /\ selEmitted' = SelEmit("clear", <<>>, None)
    /\ selLast' = [op |-> "clear", arg |-> NoId, result |-> selectedFeatures # <<>>]

SelSelect ==
    /\ \E feature \in Features, sourceId \in SourceIds, layerId \in LayerIds,
          setAsCurrent \in BOOLEAN, genId \in FeatureIds :
          Select(feature, sourceId, layerId, setAsCurrent, genId)
    /\ UNCHANGED <<toolVars, hmVars, edVars, evVars>>

SelDeselect ==
    /\ \E featureId \in FeatureIds : Deselect(featureId)
    /\ UNCHANGED <<toolVars, hmVars, edVars, evVars>>

SelClear ==
    /\ ClearSelection
    /\ UNCHANGED <<toolVars, hmVars, edVars, evVars>>

InitSel ==
    /\ selectedFeatures = <<>>
    /\ selectionBounds = None
    /\ selEmitted = <<>>
    /\ selLast = [op |-> "init", arg |-> NoId, result |-> FALSE]

(***************************************************************************)
(* ToolManager and BaseTool                                                *)
(***************************************************************************)
\* Tool objects.  Every tool is a concrete BaseTool that keeps the default
\* handlers.  T1 and T2 are two instances of one tool class whose
\* constructor assigns a fixed id; T3 has an id of its own.
ToolObjs == {"T1", "T2", "T3"}
ToolIds == {"a", "b", "c"}

ToolId(t) == IF t \in {"T1", "T2"} THEN "a" ELSE "b"

ActiveSet(st) == {t \in ToolObjs : st[t] = "active"}

\* one call made on a tool: the events it emitted, how many registry-level
\* forwarders received each of them, and the tools active when it returned
LogEntry(call, t, emitted, st) ==
    [call |-> call, tool |-> t, emitted |-> emitted,
     delivered |-> Len(emitted) * toolForwarders[t], activeAfter |-> ActiveSet(st)]

\* BaseTool.activate: tool states after the call
ToolActivate(t, st) ==
    IF st[t] # "inactive" THEN st ELSE [st EXCEPT ![t] = "active"]

ToolActivateLog(t, st) ==
    << LogEntry("activate", t,
                IF st[t] # "inactive" THEN <<>> ELSE <<"activate">>,
                ToolActivate(t, st)) >>

\* BaseTool.deactivate: tool states after the call.  BaseTool never adds to
\* its own handles list, so clearHandles removes nothing from the store.
ToolDeactivate(t, st) ==
    IF st[t] = "inactive" THEN st ELSE [st EXCEPT ![t] = "inactive"]

ToolDeactivateLog(t, st) ==
    << LogEntry("deactivate", t,
                IF st[t] = "inactive" THEN <<>> ELSE <<"deactivate">>,
                ToolDeactivate(t, st)) >>

\* the tool activateTool deactivates before activating the requested one
PreviousToolMut ==
    NULL

PreviousTool ==
    activeTool

\* the value activateTool stores into the active-tool slot
NewActiveToolMut(tool) ==
    IF activeTool # NULL THEN activeTool ELSE tool

NewActiveTool(tool) ==
    tool

RegisterTool(t) ==
    /\ toolForwarders[t] < MaxRegistrations
    /\ tools' = MapPut(tools, ToolId(t), t)
    /\ toolForwarders' = [toolForwarders EXCEPT ![t] = @ + 1]
    /\ toolLog' = <<>>
    /\ toolLast' = [op |-> "register", arg |-> t, result |-> t]
    /\ UNCHANGED <<activeTool, toolState>>

\* deactivateTool that empties the slot without deactivating the tool
DeactivateToolMut ==
    IF activeTool # NULL
    THEN /\ activeTool' = NULL
         /\ toolLog' = <<>>
         /\ toolLast' = [op |-> "deactivate", arg |-> NULL, result |-> "true"]
         /\ UNCHANGED <<tools, toolState, toolForwarders>>
    ELSE /\ toolLog' = <<>>
         /\ toolLast' = [op |-> "deactivate", arg |-> NULL, result |-> "false"]
         /\ UNCHANGED <<tools, activeTool, toolState, toolForwarders>>

DeactivateTool ==
    IF activeTool # NULL
    THEN /\ toolState' = ToolDeactivate(activeTool, toolState)
         /\ toolLog' = ToolDeactivateLog(activeTool, toolState)
         /\ activeTool' = NULL
         /\ toolLast' = [op |-> "deactivate", arg |-> NULL, result |-> "true"]
         /\ UNCHANGED <<tools, toolForwarders>>
    ELSE /\ toolLog' = <<>>
         /\ toolLast' = [op |-> "deactivate", arg |-> NULL, result |-> "false"]
         /\ UNCHANGED <<tools, activeTool, toolState, toolForwarders>>

\* unregisterTool that destroys and removes the tool without deactivating it
UnregisterToolMut(toolId) ==
    LET tool == MapGet(tools, toolId)
    IN IF tool # NULL
       THEN /\ toolForwarders' = [toolForwarders EXCEPT ![tool] = 0]
            /\ toolLog' = << [LogEntry("destroy", tool, <<>>, toolState)
                                EXCEPT !.delivered = 0] >>
            /\ tools' = MapRemove(tools, toolId)
            /\ toolLast' = [op |-> "unregister", arg |-> toolId, result |-> "true"]
            /\ UNCHANGED <<activeTool, toolState>>
       ELSE /\ toolLog' = <<>>
            /\ toolLast' = [op |-> "unregister", arg |-> toolId, result |-> "false"]
            /\ UNCHANGED <<tools, activeTool, toolState, toolForwarders>>

UnregisterTool(toolId) ==
    LET tool == MapGet(tools, toolId)
        wasActive == activeTool = tool
        st1 == IF wasActive THEN ToolDeactivate(tool, toolState) ELSE toolState
        log1 == IF wasActive THEN ToolDeactivateLog(tool, toolState) ELSE <<>>
    IN IF tool # NULL
       THEN /\ toolState' = st1
            /\ activeTool' = IF wasActive THEN NULL ELSE activeTool
            \* tool.destroy(): clearHandles and eventListeners.clear()
            /\ toolForwarders' = [toolForwarders EXCEPT ![tool] = 0]
            /\ toolLog' = log1 \o << [LogEntry("destroy", tool, <<>>, st1)
                                        EXCEPT !.delivered = 0] >>
            /\ tools' = MapRemove(tools, toolId)
            /\ toolLast' = [op |-> "unregister", arg |-> toolId, result |-> "true"]
       ELSE /\ toolLog' = <<>>
            /\ toolLast' = [op |-> "unregister", arg |-> toolId, result |-> "false"]
            /\ UNCHANGED <<tools, activeTool, toolState, toolForwarders>>

\* activateTool that deactivates the current tool before looking up the id
ActivateToolMut(toolId) ==
    LET tool == MapGet(tools, toolId)
        prev == PreviousTool
        st1 == IF prev # NULL THEN ToolDeactivate(prev, toolState) ELSE toolState
        log1 == IF prev # NULL THEN ToolDeactivateLog(prev, toolState) ELSE <<>>
    IN IF tool = NULL
       THEN /\ toolState' = st1
            /\ toolLog' = log1
            /\ toolLast' = [op |-> "activate", arg |-> toolId, result |-> NULL]
            /\ UNCHANGED <<tools, activeTool, toolForwarders>>
       ELSE /\ toolState' = ToolActivate(tool, st1)
            /\ toolLog' = log1 \o ToolActivateLog(tool, st1)
            /\ activeTool' = NewActiveTool(tool)
            /\ toolLast' = [op |-> "activate", arg |-> toolId, result |-> tool]
            /\ UNCHANGED <<tools, toolForwarders>>

ActivateTool(toolId) ==
    LET tool == MapGet(tools, toolId)
        prev == PreviousTool
        st1 == IF prev # NULL THEN ToolDeactivate(prev, toolState) ELSE toolState
        log1 == IF prev # NULL THEN ToolDeactivateLog(prev, toolState) ELSE <<>>
    IN IF tool = NULL
       THEN /\ toolLog' = <<>>
            /\ toolLast' = [op |-> "activate", arg |-> toolId, result |-> NULL]
            /\ UNCHANGED <<tools, activeTool, toolState, toolForwarders>>
       ELSE /\ toolState' = ToolActivate(tool, st1)
            /\ toolLog' = log1 \o ToolActivateLog(tool, st1)
            /\ activeTool' = NewActiveTool(tool)
            /\ toolLast' = [op |-> "activate", arg |-> toolId, result |-> tool]
            /\ UNCHANGED <<tools, toolForwarders>>

\* Input events the registry subscribes to, and the Tool method each of its
\* bound handlers calls.
MapEventKinds == {"click", "mousemove", "mousedown", "mouseup"}
HandleEventTypes == {"dragstart", "drag", "dragend", "click", "mouseover", "mouseout"}
Keys == {"Escape", "Enter"}

HandlerFor(kind) ==
    CASE kind = "click" -> "handleClick"
      [] kind = "mousemove" -> "handleMouseMove"
      [] kind = "mousedown" -> "handleMouseDown"
      [] kind = "mouseup" -> "handleMouseUp"
      [] kind = "keydown" -> "handleKeyEvent"
      [] OTHER -> "handleHandleEvent"

\* the tools a bound handler of setupEventHandlers forwards an event to
RouteTargetsMut ==
    {tools[i] : i \in DOMAIN tools}

RouteTargets ==
    IF activeTool # NULL THEN {activeTool} ELSE {}

\* The default BaseTool handlers change nothing, except that handleKeyEvent
\* cancels on Escape (clearHandles, which removes nothing, then emit cancel).
ToolHandle(t, kind, detail) ==
    LogEntry(HandlerFor(kind), t,
             IF kind = "keydown" /\ detail = "Escape" THEN <<"cancel">> ELSE <<>>,
             toolState)

RECURSIVE SetToSeq(_)
SetToSeq(S) ==
    IF S = {} THEN <<>>
    ELSE LET x == CHOOSE y \in S : TRUE IN <<x>> \o SetToSeq(S \ {x})

Route(kind, detail) ==
    LET targets == SetToSeq(RouteTargets)
    IN /\ toolLog' = [i \in 1..Len(targets) |-> ToolHandle(targets[i], kind, detail)]
       /\ toolLast' = [op |-> "route", arg |-> kind, result |-> detail]
       /\ UNCHANGED <<tools, activeTool, toolState, toolForwarders>>

TmRegister ==
    /\ \E t \in ToolObjs : RegisterTool(t)
    /\ UNCHANGED <<selVars, hmVars, edVars, evVars>>

TmUnregister ==
    /\ \E toolId \in ToolIds : UnregisterTool(toolId)
    /\ UNCHANGED <<selVars, hmVars, edVars, evVars>>

TmActivate ==
    /\ \E toolId \in ToolIds : ActivateTool(toolId)
    /\ UNCHANGED <<selVars, hmVars, edVars, evVars>>

TmDeactivate ==
    /\ DeactivateTool
    /\ UNCHANGED <<selVars, hmVars, edVars, evVars>>

TmMapEvent ==
    /\ \E kind \in MapEventKinds : Route(kind, NULL)
    /\ UNCHANGED <<selVars, hmVars, edVars, evVars>>

TmKeyDown ==
    /\ \E key \in Keys : Route("keydown", key)
    /\ UNCHANGED <<selVars, hmVars, edVars, evVars>>

TmHandleEvent ==
    /\ \E type \in HandleEventTypes : Route("handle", type)
    /\ UNCHANGED <<selVars, hmVars, edVars, evVars>>

InitTools ==
    /\ tools = EmptyMap
    /\ activeTool = NULL
    /\ toolState = [t \in ToolObjs |-> "inactive"]
    /\ toolForwarders = [t \in ToolObjs |-> 0]
    /\ toolLog = <<>>
    /\ toolLast = [op |-> "init", arg |-> NULL, result |-> NULL]

(***************************************************************************)
(* HandleManager                                                           *)
(***************************************************************************)
\* gridSize = 0.001 degree, in units of 0.0005 degree
GridSize == 2

HandleIds == {"h1", "h2"}
Coords == 0..MaxCoord
Positions == [lon : Coords, lat : Coords]

\* Handle.constraints is optional, and so is each of its properties
ConstraintSets ==
    {None} \cup {Some([lockAxis |-> a, snapToGrid |-> g, proportional |-> FALSE]) :
                    a \in {"none", "x", "y"}, g \in BOOLEAN}

\* The handle objects application code builds itself and passes to
\* addHandle, as in the README; they all carry the id the application chose.
NewHandles ==
    [id : {"h1"}, type : {"move"}, shape : {"circle"}, position : Positions,
     visible : {TRUE}, draggable : BOOLEAN, constraints : ConstraintSets]

\* map.getCenter(), where createHandle puts a handle given no position
MapCenter == [lon |-> 0, lat |-> 0]

\* the positions setHandlePosition is called with
DiagonalPositions == {p \in Positions : p.lon = p.lat}

\* the Partial<Handle> objects updateHandle is called with
PartialHandles ==
    {[draggable |-> FALSE]} \cup
    {[position |-> p, visible |-> v] : p \in DiagonalPositions, v \in BOOLEAN}

\* the handle types createHandle is called with
HandleTypes == {"resize", "move", "snap"}

getConstraintsForType(type) ==
    CASE type = "resize" ->
           [lockAxis |-> "none", snapToGrid |-> FALSE, proportional |-> TRUE]
      [] type = "snap" ->
           [lockAxis |-> "none", snapToGrid |-> TRUE, proportional |-> FALSE]
      [] OTHER ->
           [lockAxis |-> "none", snapToGrid |-> FALSE, proportional |-> FALSE]

\* createHandle(type, shape, position); id is what generateId returns
createHandle(type, shape, position, id) ==
    [id |-> id, type |-> type, shape |-> shape, position |-> position,
     visible |-> TRUE, draggable |-> TRUE,
     constraints |-> Some(getConstraintsForType(type))]

\* Math.round(x / gridSize) * gridSize; Math.round rounds half up
SnapMut(x) ==
    (2 * x + GridSize) \div (2 * GridSize)

Snap(x) ==
    ((2 * x + GridSize) \div (2 * GridSize)) * GridSize

\* the coordinates the lockAxis branch takes from initialPosition
LockedMut(lockAxis, initialPos, newPosition) ==
    IF lockAxis = "x" THEN [newPosition EXCEPT !.lat = initialPos.lat]
    ELSE IF lockAxis = "y" THEN [newPosition EXCEPT !.lon = initialPos.lon]
    ELSE newPosition

Locked(lockAxis, initialPos, newPosition) ==
    IF lockAxis = "x" THEN [newPosition EXCEPT !.lon = initialPos.lon]
    ELSE IF lockAxis = "y" THEN [newPosition EXCEPT !.lat = initialPos.lat]
    ELSE newPosition

\* applyConstraints without its lockAxis branch
applyConstraintsMut(handle, newPosition) ==
    IF handle.constraints = None THEN newPosition
    ELSE IF handle.constraints[1].snapToGrid
         THEN [lon |-> Snap(newPosition.lon), lat |-> Snap(newPosition.lat)]
         ELSE newPosition

\* applyConstraints(handle, newPosition), reading this.dragState
applyConstraints(handle, newPosition) ==
    IF handle.constraints = None THEN newPosition
    ELSE LET constraints == handle.constraints[1]
             locked == IF constraints.lockAxis # "none" /\ dragState # None
                       THEN Locked(constraints.lockAxis, dragState[1].initialPosition,
                                   newPosition)
                       ELSE newPosition
         IN IF constraints.snapToGrid
            THEN [lon |-> Snap(locked.lon), lat |-> Snap(locked.lat)]
            ELSE locked

HandleEvent(type, handle) ==
    [type |-> type, handle |-> handle, position |-> handle.position]

\* { ...handle, ...newProps }: every property newProps has is overwritten;
\* a handle object passed as newProps has no constraints property when its
\* constraints are absent
MergeHandle(handle, newProps) ==
    [f \in DOMAIN handle |->
        IF f \in DOMAIN newProps /\ ~(f = "constraints" /\ newProps[f] = None)
        THEN newProps[f] ELSE handle[f]]

\* whether the mousedown handler starts a drag on the handle it found
CanStartDragMut(handle) ==
    TRUE

CanStartDrag(handle) ==
    handle.draggable

\* mousedown on the handle layer; handleId is the id property of the
\* rendered feature under the pointer
MouseDown(handleId) ==
    /\ hmLast' = [op |-> "mousedown", id |-> handleId, result |-> NULL]
    /\ IF handleId \in DOMAIN handles /\ CanStartDrag(handles[handleId])
       THEN LET handle == handles[handleId]
            IN /\ activeHandle' = handleId
               /\ dragState' = Some([handle |-> handle,
                                     initialPosition |-> handle.position,
                                     currentPosition |-> handle.position])
               /\ hmEmitted' = << HandleEvent("dragstart", handle) >>
               /\ UNCHANGED handles
       ELSE /\ hmEmitted' = <<>>
            /\ UNCHANGED <<handles, dragState, activeHandle>>

\* a mousemove handler that stores the pointer position as it came
MouseMoveMut(position) ==
    /\ hmLast' = [op |-> "mousemove", id |-> NULL, result |-> NULL, position |-> position]
    /\ IF dragState # None
       THEN LET constrainedPosition == position
                handle == [dragState[1].handle EXCEPT !.position = constrainedPosition]
            IN /\ dragState' = Some([dragState[1] EXCEPT
                                        !.handle = handle,
                                        !.currentPosition = constrainedPosition])
               \* updateHandle(handle.id, handle)
               /\ handles' = IF handle.id \in DOMAIN handles
                             THEN MapPut(handles, handle.id,
                                         MergeHandle(handles[handle.id], handle))
                             ELSE handles
               /\ hmEmitted' = << HandleEvent("drag", handle) >>
               /\ UNCHANGED activeHandle
       ELSE /\ hmEmitted' = <<>>
            /\ UNCHANGED <<handles, dragState, activeHandle>>

\* mousemove on the map at the geographic position of the pointer
MouseMove(position) ==
    /\ hmLast' = [op |-> "mousemove", id |-> NULL, result |-> NULL, position |-> position]
    /\ IF dragState # None
       THEN LET constrainedPosition == applyConstraints(dragState[1].handle, position)
                handle == [dragState[1].handle EXCEPT !.position = constrainedPosition]
            IN /\ dragState' = Some([dragState[1] EXCEPT
                                        !.handle = handle,
                                        !.currentPosition = constrainedPosition])
               \* updateHandle(handle.id, handle)
               /\ handles' = IF handle.id \in DOMAIN handles
                             THEN MapPut(handles, handle.id,
                                         MergeHandle(handles[handle.id], handle))
                             ELSE handles
               /\ hmEmitted' = << HandleEvent("drag", handle) >>
               /\ UNCHANGED activeHandle
       ELSE /\ hmEmitted' = <<>>
            /\ UNCHANGED <<handles, dragState, activeHandle>>

\* a mouseup handler that reports where the drag started
MouseUpMut ==
    /\ hmLast' = [op |-> "mouseup", id |-> NULL, result |-> NULL]
    /\ IF dragState # None
       THEN /\ hmEmitted' = << [HandleEvent("dragend", dragState[1].handle) EXCEPT
                                 !.position = dragState[1].initialPosition] >>
            /\ dragState' = None
            /\ activeHandle' = NULL
            /\ UNCHANGED handles
       ELSE /\ hmEmitted' = <<>>
            /\ UNCHANGED <<handles, dragState, activeHandle>>

\* mouseup on the map
MouseUp ==
    /\ hmLast' = [op |-> "mouseup", id |-> NULL, result |-> NULL]
    /\ IF dragState # None
       THEN /\ hmEmitted' = << HandleEvent("dragend", dragState[1].handle) >>
            /\ dragState' = None
            /\ activeHandle' = NULL
            /\ UNCHANGED handles
       ELSE /\ hmEmitted' = <<>>
            /\ UNCHANGED <<handles, dragState, activeHandle>>

AddHandle(handle) ==
    /\ handles' = MapPut(handles, handle.id, handle)
    /\ hmLast' = [op |-> "call", id |-> NULL, result |-> NULL]
    /\ hmEmitted' = <<>>
    /\ UNCHANGED <<dragState, activeHandle>>

\* removeHandle(handleId): Map.delete and its result
RemoveHandle(handleId) ==
    /\ handles' = MapRemove(handles, handleId)
    /\ hmLast' = [op |-> "removeHandle", id |-> handleId,
                  result |-> IF handleId \in DOMAIN handles THEN "true" ELSE "false"]
    /\ hmEmitted' = <<>>
    /\ UNCHANGED <<dragState, activeHandle>>

\* updateHandle that stores the new properties under an id it did not find
UpdateHandleMut(op, handleId, newProps) ==
    /\ handles' = MapPut(handles, handleId, newProps)
    /\ hmLast' = [op |-> op, id |-> handleId,
                  result |-> IF handleId \in DOMAIN handles THEN "handle" ELSE NULL]
    /\ hmEmitted' = <<>>
    /\ UNCHANGED <<dragState, activeHandle>>

\* updateHandle(handleId, newProps), called directly or through one of its
\* wrappers (op); the result is the updated handle or null
UpdateHandle(op, handleId, newProps) ==
    /\ handles' = IF handleId \in DOMAIN handles
                  THEN MapPut(handles, handleId, MergeHandle(handles[handleId], newProps))
                  ELSE handles
    /\ hmLast' = [op |-> op, id |-> handleId,
                  result |-> IF handleId \in DOMAIN handles THEN "handle" ELSE NULL]
    /\ hmEmitted' = <<>>
    /\ UNCHANGED <<dragState, activeHandle>>

SetHandleVisibility(handleId, visible) ==
    UpdateHandle("setHandleVisibility", handleId, [visible |-> visible])

SetHandlePosition(handleId, position) ==
    UpdateHandle("setHandlePosition", handleId, [position |-> position])

\* createAndAddHandle(type, shape, position)
CreateAndAddHandle(type, shape, position, id) ==
    AddHandle(createHandle(type, shape, position, id))

ClearHandles ==
    /\ handles' = EmptyMap
    /\ hmLast' = [op |-> "call", id |-> NULL, result |-> NULL]
    /\ hmEmitted' = <<>>
    /\ UNCHANGED <<dragState, activeHandle>>

HmMouseDown ==
    /\ \E handleId \in HandleIds : MouseDown(handleId)
    /\ UNCHANGED <<selVars, toolVars, edVars, evVars>>

HmMouseMove ==
    /\ \E position \in Positions : MouseMove(position)
    /\ UNCHANGED <<selVars, toolVars, edVars, evVars>>

HmMouseUp ==
    /\ MouseUp
    /\ UNCHANGED <<selVars, toolVars, edVars, evVars>>

HmAddHandle ==
    /\ \E handle \in NewHandles : AddHandle(handle)
    /\ UNCHANGED <<selVars, toolVars, edVars, evVars>>

HmCreateAndAddHandle ==
    /\ \E type \in HandleTypes, position \in Positions, id \in HandleIds :
          CreateAndAddHandle(type, "circle", position, id)
    /\ UNCHANGED <<selVars, toolVars, edVars, evVars>>

\* createAndAddHandle(type, shape) without a position
HmCreateAtCenter ==
    /\ \E type \in HandleTypes, id \in HandleIds :
          CreateAndAddHandle(type, "circle", MapCenter, id)
    /\ UNCHANGED <<selVars, toolVars, edVars, evVars>>

HmUpdateHandle ==
    /\ \E handleId \in HandleIds, newProps \in PartialHandles :
          UpdateHandle("updateHandle", handleId, newProps)
    /\ UNCHANGED <<selVars, toolVars, edVars, evVars>>

HmSetHandlePosition ==
    /\ \E handleId \in HandleIds, position \in DiagonalPositions :
          SetHandlePosition(handleId, position)
    /\ UNCHANGED <<selVars, toolVars, edVars, evVars>>

HmSetHandleVisibility ==
    /\ \E handleId \in HandleIds, visible \in BOOLEAN :
          SetHandleVisibility(handleId, visible)
    /\ UNCHANGED <<selVars, toolVars, edVars, evVars>>

HmRemoveHandle ==
    /\ \E handleId \in HandleIds : RemoveHandle(handleId)
    /\ UNCHANGED <<selVars, toolVars, edVars, evVars>>

HmClearHandles ==
    /\ ClearHandles
    /\ UNCHANGED <<selVars, toolVars, edVars, evVars>>

InitHandles ==
    /\ handles = EmptyMap
    /\ dragState = None
    /\ activeHandle = NULL
    /\ hmEmitted = <<>>
    /\ hmLast = [op |-> "call", id |-> NULL, result |-> NULL]

(***************************************************************************)
(* SelectionTool (tools/selection-tool.ts), registered with the            *)
(* ToolManager and working on the SelectionManager and the HandleManager   *)
(***************************************************************************)
\* the threshold for the minimum box size of a rubber band, in square pixels
MinBoxSize == 100

\* the SelectionTool object and the id its constructor assigns
SelTool == "S1"
SelToolId == "selection-tool"

\* the features of the map's feature source, by feature id
SourceFeatureIds == {1, 2}

InitialSource ==
    [i \in SourceFeatureIds |->
        IF i = 1
        THEN [id |-> 1, gtype |-> "Polygon", box |-> <<0, 0, 4, 2>>, area |-> 8, length |-> 12]
        ELSE [id |-> 2, gtype |-> "LineString", box |-> <<-2, -2, 0, 2>>, area |-> 0,
              length |-> 5]]

\* the ids of the features queryRenderedFeatures returns, in order
HitLists == {<<>>, <<1>>, <<1, 2>>}

\* the geographic positions the pointer is pressed, moved and released at
PointerPositions ==
    {[lon |-> 0, lat |-> 2], [lon |-> 1, lat |-> 1]}

\* the ids generateId returns to the SelectionTool, taken to be fresh
GenId(n) == "g" \o ToString(n)

\* the fields of a SelectionTool after its constructor
NewSelectionTool(multiSelect) ==
    [state |-> "inactive", multiSelect |-> multiSelect, forwarders |-> 0,
     handles |-> <<>>, dragStart |-> None, dragCurrent |-> None,
     activeHandle |-> None, initialSelectionBounds |-> None, handleListeners |-> 0,
     cornerHandles |-> <<>>, edgeHandles |-> <<>>, centerHandle |-> None,
     dragBoxLayer |-> FALSE, dragBoxVisible |-> FALSE]

\* The state one input event works on.  An event handler is a chain of
\* method calls, each taking this record to the next: sel, bounds, semit and
\* slast are the SelectionManager's, handles and subs the HandleManager's,
\* st the tool's; temit are the tool events of the running ToolManager call
\* and tlog the ToolManager calls already made.
World(hs) ==
    [sel |-> selectedFeatures, bounds |-> selectionBounds, semit |-> <<>>,
     slast |-> selLast, handles |-> hs, next |-> nextHandleId, subs |-> hmListeners,
     st |-> selectionTool, src |-> sourceData, temit |-> <<>>, tlog |-> <<>>, log |-> <<>>,
     seen |-> <<>>]

StLogCall(w, name) == [w EXCEPT !.log = Append(@, name)]

\* a call the ToolManager made on the SelectionTool, as in LogEntry
CallTool(call, w) ==
    [w EXCEPT !.tlog = Append(@, [call |-> call, tool |-> SelTool, emitted |-> w.temit,
                                  delivered |-> Len(w.temit) * w.st.forwarders,
                                  activeAfter |-> IF w.st.state = "active"
                                                  THEN {SelTool} ELSE {}]),
              !.temit = <<>>]

\* selectionManager.clearSelection()
WClearSelection(w) ==
    [w EXCEPT !.sel = <<>>, !.bounds = None,
              !.semit = @ \o SelEmit("clear", <<>>, None),
              !.seen = @ \o [i \in 1..Len(SelEmit("clear", <<>>, None)) |-> w.handles],
              !.slast = [op |-> "clear", arg |-> NoId, result |-> w.sel # <<>>]]

\* selectionManager.select(feature, feature.source, feature.layer.id, !multiSelect)
WSelect(w, featureId) ==
    LET r == SelectFrom(w.sel, w.src[featureId], "srcA", "layerA", ~w.st.multiSelect,
                        featureId)
    IN [w EXCEPT !.sel = r.sel, !.bounds = r.bounds, !.semit = @ \o r.emitted,
                 !.seen = @ \o [i \in 1..Len(r.emitted) |-> w.handles],
                 !.slast = r.last]

\* selecting the hits without clearing the previous selection first
SelectHitsMut(w, hits) ==
    SeqFold(WSelect, w, hits)

\* the clearSelection and the features.forEach of handleClick and handleMouseUp
SelectHits(w, hits) ==
    SeqFold(WSelect, IF ~w.st.multiSelect THEN WClearSelection(w) ELSE w, hits)

\* BaseTool.clearHandles: removes the handles of this.handles from the store
clearHandles(w) ==
    LET own == {w.st.handles[i] : i \in 1..Len(w.st.handles)}
    IN [w EXCEPT !.handles = [k \in DOMAIN w.handles \ own |-> w.handles[k]],
                 !.st.handles = <<>>]

\* SelectionTool.addHandle: createHandle and handleManager.addHandle
addHandle(w, type, shape, position) ==
    LET handle == createHandle(type, shape, position, GenId(w.next + 1))
    IN [w EXCEPT !.handles = MapPut(w.handles, handle.id, handle), !.next = @ + 1]

\* nw, ne, se, sw of a bbox [minX, minY, maxX, maxY]
CornerPositionsMut(bbox) ==
    << [lon |-> bbox[1], lat |-> bbox[2]], [lon |-> bbox[3], lat |-> bbox[2]],
       [lon |-> bbox[3], lat |-> bbox[4]], [lon |-> bbox[1], lat |-> bbox[4]] >>

CornerPositions(bbox) ==
    << [lon |-> bbox[1], lat |-> bbox[4]], [lon |-> bbox[3], lat |-> bbox[4]],
       [lon |-> bbox[3], lat |-> bbox[2]], [lon |-> bbox[1], lat |-> bbox[2]] >>

\* n, e, s, w; the boxes of the model have even sums, so the halves are exact
MidpointPositions(bbox) ==
    << [lon |-> (bbox[1] + bbox[3]) \div 2, lat |-> bbox[4]],
       [lon |-> bbox[3], lat |-> (bbox[2] + bbox[4]) \div 2],
       [lon |-> (bbox[1] + bbox[3]) \div 2, lat |-> bbox[2]],
       [lon |-> bbox[1], lat |-> (bbox[2] + bbox[4]) \div 2] >>

AddCorner(w, position) ==
    LET w1 == addHandle(w, "resize", "square", position)
    IN [w1 EXCEPT !.st.cornerHandles = Append(@, GenId(w1.next))]

AddEdge(w, position) ==
    LET w1 == addHandle(w, "resize", "circle", position)
    IN [w1 EXCEPT !.st.edgeHandles = Append(@, GenId(w1.next))]

\* createHandlesForSelection; the line that adds the move handle is
\* commented out in the source
createHandlesForSelection(w) ==
    LET w1 == [clearHandles(StLogCall(w, "createHandlesForSelection")) EXCEPT
                  !.st.cornerHandles = <<>>, !.st.edgeHandles = <<>>,
                  !.st.centerHandle = None]
    IN IF w1.bounds = None THEN w1
       ELSE LET bbox == w1.bounds[1].bbox
            IN SeqFold(AddEdge, SeqFold(AddCorner, w1, CornerPositions(bbox)),
                       MidpointPositions(bbox))

\* resetDragBox; dragBoxLayer is whether the map has the drag box layer and
\* dragBoxVisible whether its visibility is 'visible'
resetDragBox(w) ==
    [w EXCEPT !.st.dragStart = None, !.st.dragCurrent = None,
              !.st.dragBoxVisible = FALSE]

subscribeToHandleEvents(w) ==
    [w EXCEPT !.subs = @ + 1, !.st.handleListeners = 1]

unsubscribeFromHandleEvents(w) ==
    [w EXCEPT !.subs = @ - w.st.handleListeners, !.st.handleListeners = 0]

\* SelectionTool.activate: BaseTool.activate, then the subscription
activate(w) ==
    LET w1 == IF w.st.state # "inactive" THEN w
              ELSE [w EXCEPT !.st.state = "active", !.temit = Append(@, "activate")]
    IN subscribeToHandleEvents([w1 EXCEPT !.st.dragBoxLayer = TRUE])

\* SelectionTool.deactivate, ending in BaseTool.deactivate
deactivate(w) ==
    LET w1 == [unsubscribeFromHandleEvents(resetDragBox(w)) EXCEPT
                  !.st.cornerHandles = <<>>, !.st.edgeHandles = <<>>,
                  !.st.centerHandle = None, !.st.activeHandle = None,
                  !.st.dragBoxLayer = FALSE]
    IN IF w1.st.state = "inactive" THEN w1
       ELSE [clearHandles(w1) EXCEPT !.st.state = "inactive",
                                     !.temit = Append(@, "deactivate")]

\* BaseTool.cancel
cancel(w) ==
    [clearHandles(StLogCall(w, "cancel")) EXCEPT !.temit = Append(@, "cancel")]

\* BaseTool.handleKeyEvent, which the SelectionTool does not override
handleKeyEvent(w, key) ==
    IF key = "Escape" THEN cancel(w) ELSE w

\* moveSelection, resizeSelection and finalizeTransformation have no
\* statements in the source
moveSelection(w, position) ==
    StLogCall(w, "moveSelection")

\* a resizeSelection that writes the preview into the feature source
resizeSelectionMut(w, handle, position) ==
    [StLogCall(w, "resizeSelection") EXCEPT
        !.src = [i \in DOMAIN @ |->
                    IF \E k \in 1..Len(w.sel) : w.sel[k].id = i
                    THEN [@[i] EXCEPT !.box = <<@[1], @[2], position.lon, position.lat>>]
                    ELSE @[i]]]

resizeSelection(w, handle, position) ==
    StLogCall(w, "resizeSelection")

finalizeTransformation(w) ==
    StLogCall(w, "finalizeTransformation")

dragStartListener(w, handle) ==
    [w EXCEPT !.st.activeHandle = Some(handle.id),
              !.st.initialSelectionBounds = w.bounds]

dragListener(w, handle, position) ==
    IF w.st.activeHandle = None \/ w.st.initialSelectionBounds = None THEN w
    ELSE IF handle.type = "move" THEN moveSelection(w, position)
    ELSE IF handle.type = "resize" THEN resizeSelection(w, handle, position)
    ELSE w

\* a dragend listener that keeps the snapshot of the bounds
dragEndListenerMut(w) ==
    IF w.st.activeHandle # None
    THEN createHandlesForSelection(
            [finalizeTransformation(w) EXCEPT !.st.activeHandle = None])
    ELSE w

dragEndListener(w) ==
    IF w.st.activeHandle # None
    THEN createHandlesForSelection(
            [finalizeTransformation(w) EXCEPT !.st.activeHandle = None,
                                              !.st.initialSelectionBounds = None])
    ELSE w

\* hits is what queryFeaturesAtPoint returns
handleClick(w, hits) ==
    IF w.st.dragStart # None THEN w
    ELSE IF hits = <<>> /\ ~w.st.multiSelect THEN WClearSelection(w)
    ELSE createHandlesForSelection(SelectHits(w, hits))

\* setLayoutProperty on a layer the map does not have changes nothing
handleMouseDown(w, lngLat) ==
    [w EXCEPT !.st.dragStart = Some(lngLat), !.st.dragCurrent = Some(lngLat),
              !.st.dragBoxVisible = w.st.dragBoxLayer]

handleMouseMove(w, lngLat) ==
    IF w.st.dragStart # None THEN [w EXCEPT !.st.dragCurrent = Some(lngLat)] ELSE w

\* a threshold test that also lets a box of exactly the minimum size select
ExceedsThresholdMut(boxSize) ==
    boxSize >= MinBoxSize

\* boxSize > 100, the threshold for the minimum box size
ExceedsThreshold(boxSize) ==
    boxSize > MinBoxSize

\* a handleMouseUp that resets the drag box only after a box selection
handleMouseUpMut(w, boxSize, hits) ==
    IF w.st.dragStart # None /\ w.st.dragCurrent # None
    THEN IF ExceedsThreshold(boxSize)
         THEN resetDragBox(createHandlesForSelection(SelectHits(w, hits))) ELSE w
    ELSE w

\* boxSize is the area of the box in square pixels and hits what
\* queryFeaturesInBox returns
handleMouseUp(w, boxSize, hits) ==
    IF w.st.dragStart # None /\ w.st.dragCurrent # None
    THEN resetDragBox(IF ExceedsThreshold(boxSize)
                      THEN createHandlesForSelection(SelectHits(w, hits)) ELSE w)
    ELSE w

\* the state an input event leaves; an event that would take generateId
\* past the bound of the model is not taken
Commit(w) ==
    /\ w.next <= 8 * MaxRegenerations
    /\ selectedFeatures' = w.sel
    /\ selectionBounds' = w.bounds
    /\ selEmitted' = w.semit
    /\ selLast' = w.slast
    /\ handles' = w.handles
    /\ nextHandleId' = w.next
    /\ hmListeners' = w.subs
    /\ selectionTool' = w.st
    /\ sourceData' = w.src
    /\ toolLog' = w.tlog
    /\ stLog' = w.log
    /\ selSeen' = w.seen
    /\ UNCHANGED evVars

\* HandleManager.emitEvent: every listener triple the HandleManager holds
\* is the SelectionTool's, and each gets the event
Listeners(Op(_, _), w) ==
    SeqFold(Op, w, [n \in 1..hmListeners |-> n])

\* new SelectionTool({ multiSelect }) and registerTool(tool), once
EdRegister ==
    /\ SelToolId \notin DOMAIN tools
    /\ \E multiSelect \in BOOLEAN :
          selectionTool' = [NewSelectionTool(multiSelect) EXCEPT !.forwarders = 1]
    /\ tools' = MapPut(tools, SelToolId, SelTool)
    /\ toolLog' = <<>>
    /\ stLog' = <<>>
    /\ toolLast' = [op |-> "register", arg |-> SelTool, result |-> SelTool]
    /\ UNCHANGED <<activeTool, toolState, toolForwarders, selVars, hmVars,
                   hmListeners, nextHandleId, selSeen, sourceData, evVars>>

\* activateTool('selection-tool')
EdActivate ==
    /\ LET tool == MapGet(tools, SelToolId)
           w0 == World(handles)
           w1 == IF activeTool # NULL THEN CallTool("deactivate", deactivate(w0)) ELSE w0
           w2 == CallTool("activate", activate(w1))
       IN IF tool = NULL
          THEN /\ Commit(w0)
               /\ toolLast' = [op |-> "activate", arg |-> SelToolId, result |-> NULL]
               /\ UNCHANGED activeTool
          ELSE /\ Commit(w2)
               /\ activeTool' = tool
               /\ toolLast' = [op |-> "activate", arg |-> SelToolId, result |-> tool]
    /\ UNCHANGED <<tools, toolState, toolForwarders, dragState, activeHandle, hmEmitted,
                   hmLast>>

\* deactivateTool()
EdDeactivate ==
    /\ LET w0 == World(handles)
       IN IF activeTool # NULL
          THEN /\ Commit(CallTool("deactivate", deactivate(w0)))
               /\ activeTool' = NULL
               /\ toolLast' = [op |-> "deactivate", arg |-> NULL, result |-> "true"]
          ELSE /\ Commit(w0)
               /\ toolLast' = [op |-> "deactivate", arg |-> NULL, result |-> "false"]
               /\ UNCHANGED activeTool
    /\ UNCHANGED <<tools, toolState, toolForwarders, dragState, activeHandle, hmEmitted,
                   hmLast>>

\* tool.activate() called by the application on the tool itself
EdToolActivate ==
    /\ SelToolId \in DOMAIN tools
    /\ hmListeners < MaxSubscriptions
    /\ Commit(CallTool("activate", activate(World(handles))))
    /\ toolLast' = [op |-> "tool.activate", arg |-> SelTool, result |-> NULL]
    /\ UNCHANGED <<tools, activeTool, toolState, toolForwarders, dragState, activeHandle,
                   hmEmitted, hmLast>>

\* tool.deactivate() called by the application on the tool itself
EdToolDeactivate ==
    /\ SelToolId \in DOMAIN tools
    /\ Commit(CallTool("deactivate", deactivate(World(handles))))
    /\ toolLast' = [op |-> "tool.deactivate", arg |-> SelTool, result |-> NULL]
    /\ UNCHANGED <<tools, activeTool, toolState, toolForwarders, dragState, activeHandle,
                   hmEmitted, hmLast>>

\* the handle the handle layer reports under the pointer: one of the
\* visible handles at that position, if there is any
Under(p) ==
    LET at == {id \in DOMAIN handles : handles[id].visible /\ handles[id].position = p}
    IN IF at = {} THEN {NULL} ELSE at

\* A mousedown on the map: the HandleManager's handler on the handle layer,
\* whose dragstart goes to the listeners of the tool, then the ToolManager's
\* handler, which routes the event to the active tool.
EdMouseDown ==
    /\ \E p \in PointerPositions : \E over \in Under(p) :
          /\ MouseDown(over)
          /\ LET w0 == World(handles)
                 w1 == IF hmEmitted' # <<>>
                       THEN Listeners(LAMBDA w, n : dragStartListener(w, handles[over]), w0)
                       ELSE w0
                 w2 == IF activeTool # NULL
                       THEN CallTool("handleMouseDown", handleMouseDown(w1, p)) ELSE w1
             IN Commit(w2)
    /\ toolLast' = [op |-> "route", arg |-> "mousedown", result |-> NULL]
    /\ UNCHANGED <<tools, activeTool, toolState, toolForwarders>>

\* A mousemove on the map: the HandleManager's handler, whose drag event goes
\* to the listeners of the tool, then the ToolManager's handler.
EdMouseMove ==
    /\ \E p \in PointerPositions :
          /\ MouseMove(p)
          /\ LET w0 == World(handles')
                 w1 == IF hmEmitted' # <<>>
                       THEN Listeners(LAMBDA w, n : dragListener(w, hmEmitted'[1].handle,
                                                                 hmEmitted'[1].position), w0)
                       ELSE w0
                 w2 == IF activeTool # NULL
                       THEN CallTool("handleMouseMove", handleMouseMove(w1, p)) ELSE w1
             IN Commit(w2)
    /\ toolLast' = [op |-> "route", arg |-> "mousemove", result |-> NULL]
    /\ UNCHANGED <<tools, activeTool, toolState, toolForwarders>>

\* the pixel area of the rubber band: 0 unless its two corners differ in
\* both coordinates, and then, depending on the zoom, at the threshold or
\* just above it
BoxSizes ==
    IF /\ selectionTool.dragStart # None /\ selectionTool.dragCurrent # None
       /\ selectionTool.dragStart[1].lon # selectionTool.dragCurrent[1].lon
       /\ selectionTool.dragStart[1].lat # selectionTool.dragCurrent[1].lat
    THEN {MinBoxSize, MinBoxSize + 1} ELSE {0}

\* A mouseup on the map: the HandleManager's handler, whose dragend goes to
\* the listeners of the tool, then the ToolManager's handler.
EdMouseUp ==
    /\ \E boxSize \in BoxSizes :
       \E hits \in IF boxSize > MinBoxSize THEN HitLists ELSE {<<>>} :
          LET w0 == World(handles)
              w1 == IF dragState # None
                    THEN Listeners(LAMBDA w, n : dragEndListener(w), w0) ELSE w0
              w2 == IF activeTool # NULL
                    THEN CallTool("handleMouseUp", handleMouseUp(w1, boxSize, hits))
                    ELSE w1
          IN /\ Commit(w2)
             /\ toolLast' = [op |-> "route", arg |-> "mouseup", result |-> NULL,
                             boxSize |-> boxSize, hits |-> hits]
    /\ hmLast' = [op |-> "mouseup", id |-> NULL, result |-> NULL]
    /\ hmEmitted' = IF dragState # None
                    THEN << HandleEvent("dragend", dragState[1].handle) >> ELSE <<>>
    /\ dragState' = None
    /\ activeHandle' = IF dragState # None THEN NULL ELSE activeHandle
    /\ UNCHANGED <<tools, activeTool, toolState, toolForwarders>>

\* A click on the map away from the handle layer.
EdClick ==
    /\ \E hits \in HitLists :
          LET w0 == World(handles)
          IN /\ Commit(IF activeTool # NULL
                       THEN CallTool("handleClick", handleClick(w0, hits)) ELSE w0)
             /\ toolLast' = [op |-> "route", arg |-> "click", result |-> NULL,
                             hits |-> hits]
    /\ UNCHANGED <<tools, activeTool, toolState, toolForwarders, dragState, activeHandle,
                   hmEmitted, hmLast>>

\* A keydown on the document.
EdKeyDown ==
    /\ \E key \in Keys :
          LET w0 == World(handles)
          IN /\ Commit(IF activeTool # NULL
                       THEN CallTool("handleKeyEvent", handleKeyEvent(w0, key)) ELSE w0)
             /\ toolLast' = [op |-> "route", arg |-> "keydown", result |-> key]
    /\ UNCHANGED <<tools, activeTool, toolState, toolForwarders, dragState, activeHandle,
                   hmEmitted, hmLast>>

InitEdit ==
    /\ hmListeners = 0
    /\ nextHandleId = 0
    /\ selectionTool = NewSelectionTool(FALSE)
    /\ stLog = <<>>
    /\ selSeen = <<>>
    /\ sourceData = InitialSource

(***************************************************************************)
(* eventListeners, on, off and emitEvent, which HandleManager,             *)
(* SelectionManager, BaseTool and ToolManager each define with the same    *)
(* statements; only SelectionManager.emitEvent adds the change event       *)
(***************************************************************************)
EmitterKinds == {"HandleManager", "SelectionManager", "BaseTool", "ToolManager"}

\* two event types of each emitter
EventTypesOf(kind) ==
    CASE kind = "HandleManager" -> {"dragstart", "drag"}
      [] kind = "SelectionManager" -> {"select", "change"}
      [] kind = "BaseTool" -> {"activate", "deactivate"}
      [] OTHER -> {"activate", "cancel"}

AllEventTypes == UNION {EventTypesOf(kind) : kind \in EmitterKinds}

\* listener functions
ListenerFns == {"L1", "L2"}

\* Set.add, which moves a value that is in the set already to the end
SetAddMut(set, v) ==
    Append(SelectSeq(set, LAMBDA x : x # v), v)

\* Set.add: a value that is in the set already keeps its place
SetAdd(set, v) ==
    IF \E i \in 1..Len(set) : set[i] = v THEN set ELSE Append(set, v)

\* Set.delete
SetDelete(set, v) ==
    SelectSeq(set, LAMBDA x : x # v)

\* eventListeners.get(type), undefined read as no listeners
ListenersOf(type) ==
    IF type \in DOMAIN evListeners THEN evListeners[type] ELSE <<>>

\* on(type, listener)
On(type, listener) ==
    /\ evListeners' = MapPut(evListeners, type, SetAdd(ListenersOf(type), listener))
    /\ evLast' = [op |-> "on", type |-> type]
    /\ evInvoked' = <<>>

\* off(type, listener)
Off(type, listener) ==
    /\ evListeners' = IF type \in DOMAIN evListeners
                      THEN MapPut(evListeners, type, SetDelete(evListeners[type], listener))
                      ELSE evListeners
    /\ evLast' = [op |-> "off", type |-> type]
    /\ evInvoked' = <<>>

\* listeners.forEach(listener => listener(event))
Invoke(type, given) ==
    [i \in 1..Len(ListenersOf(type)) |-> [listener |-> ListenersOf(type)[i], type |-> given]]

\* emitEvent(type, event)
EmitEvent(type) ==
    /\ evInvoked' = Invoke(type, type) \o
                    IF evKind = "SelectionManager" /\ type # "change"
                    THEN Invoke("change", "change") ELSE <<>>
    /\ evLast' = [op |-> "emit", type |-> type]
    /\ UNCHANGED evListeners

\* a new emitter of one of the four classes
EvNew ==
    /\ \E kind \in EmitterKinds : evKind' = kind
    /\ evListeners' = EmptyMap
    /\ evClock' = 0
    /\ evRegAt' = [t \in AllEventTypes |-> [l \in ListenerFns |-> 0]]
    /\ evInvoked' = <<>>
    /\ evLast' = [op |-> "new", type |-> NULL]
    /\ UNCHANGED <<selVars, toolVars, hmVars, edVars>>

EvOn ==
    /\ \E type \in EventTypesOf(evKind), listener \in ListenerFns :
          /\ evRegAt[type][listener] = 0 => evClock < MaxListenerAdds
          /\ On(type, listener)
          /\ evClock' = IF evRegAt[type][listener] = 0 THEN evClock + 1 ELSE evClock
          /\ evRegAt' = IF evRegAt[type][listener] = 0
                        THEN [evRegAt EXCEPT ![type][listener] = evClock + 1]
                        ELSE evRegAt
    /\ UNCHANGED <<evKind, selVars, toolVars, hmVars, edVars>>

EvOff ==
    /\ \E type \in EventTypesOf(evKind), listener \in ListenerFns :
          /\ Off(type, listener)
          /\ evRegAt' = [evRegAt EXCEPT ![type][listener] = 0]
    /\ UNCHANGED <<evKind, evClock, selVars, toolVars, hmVars, edVars>>

EvEmit ==
    /\ \E type \in EventTypesOf(evKind) : EmitEvent(type)
    /\ UNCHANGED <<evKind, evClock, evRegAt, selVars, toolVars, hmVars, edVars>>

InitEvents ==
    /\ evKind = "HandleManager"
    /\ evListeners = EmptyMap
    /\ evClock = 0
    /\ evRegAt = [t \in AllEventTypes |-> [l \in ListenerFns |-> 0]]
    /\ evInvoked = <<>>
    /\ evLast = [op |-> "new", type |-> NULL]

(***************************************************************************)
(* Specifications                                                          *)
(***************************************************************************)
Init == InitSel /\ InitTools /\ InitHandles /\ InitEdit /\ InitEvents

NextSel == SelSelect \/ SelDeselect \/ SelClear

NextTools ==
    \/ TmRegister
    \/ TmUnregister
    \/ TmActivate
    \/ TmDeactivate
    \/ TmMapEvent
    \/ TmKeyDown
    \/ TmHandleEvent

\* pointer events on a store that holds application-built handles
NextHandles ==
    \/ HmMouseDown
    \/ HmMouseMove
    \/ HmMouseUp
    \/ HmAddHandle
    \/ HmRemoveHandle
    \/ HmClearHandles

\* pointer events on a store that holds handles made by createHandle
NextCreated ==
    \/ HmMouseDown
    \/ HmMouseMove
    \/ HmMouseUp
    \/ HmCreateAndAddHandle
    \/ HmRemoveHandle
    \/ HmClearHandles

\* the handle store driven through its methods that take a handle id
NextStore ==
    \/ HmMouseDown
    \/ HmMouseUp
    \/ HmCreateAtCenter
    \/ HmRemoveHandle
    \/ HmUpdateHandle
    \/ HmSetHandlePosition
    \/ HmSetHandleVisibility

\* input events on a map with a registry that holds the SelectionTool
NextEdit ==
    \/ EdRegister
    \/ EdActivate
    \/ EdDeactivate
    \/ EdMouseDown
    \/ EdMouseMove
    \/ EdMouseUp
    \/ EdClick
    \/ EdKeyDown

\* the selection store driven through its public methods
SpecSel == Init /\ [][NextSel]_vars

\* the tool registry driven through its public methods and input events
SpecTools == Init /\ [][NextTools]_vars

\* the handle store driven through its public methods and pointer events
SpecHandles == Init /\ [][NextHandles]_vars

\* the handle store holding handles made by createHandle, under both ids
SpecCreated == Init /\ [][NextCreated]_vars

\* the handle store, its handles made by createHandle without a position
SpecStore == Init /\ [][NextStore]_vars

\* the SelectionTool driven by input events routed through the registry
SpecEdit == Init /\ [][NextEdit]_vars

\* the SelectionTool driven by the registry and by calls on the tool itself
NextDirect ==
    \/ EdRegister
    \/ EdActivate
    \/ EdDeactivate
    \/ EdToolActivate
    \/ EdToolDeactivate
    \/ EdMouseDown
    \/ EdMouseUp
    \/ EdClick

SpecDirect == Init /\ [][NextDirect]_vars

\* the handle store with pointer events and visibility updates during a drag
NextDragUpdate ==
    \/ HmCreateAtCenter
    \/ HmMouseDown
    \/ HmMouseMove
    \/ HmMouseUp
    \/ HmSetHandleVisibility

SpecDragUpdate == Init /\ [][NextDragUpdate]_vars

\* one event emitter and its listeners
NextEvents == EvNew \/ EvOn \/ EvOff \/ EvEmit

SpecEvents == Init /\ [][NextEvents]_vars

Next == NextSel \/ NextTools \/ NextHandles \/ NextCreated \/ NextStore \/ NextEvents

Spec == Init /\ [][Next]_vars

(***************************************************************************)
(* Properties                                                              *)
(***************************************************************************)
CurrentEntries == {i \in 1..Len(selectedFeatures) : selectedFeatures[i].isCurrentSelection}

\* C1: after any sequence of select, deselect and clearSelection calls, at
\* most one entry of the selection has isCurrentSelection = true.
C1_AtMostOneCurrent ==
    Cardinality(CurrentEntries) <= 1

\* C1 witness: a select(..., setAsCurrent = true) made on a selection that
\* already held a current entry; three entries, one of them current.
C1_Witness ==
    /\ Len(selectedFeatures) = 3
    /\ Cardinality(CurrentEntries) = 1
    /\ selEmitted # <<>>
    /\ selEmitted[1].type = "select"
    /\ selectedFeatures[1].isCurrentSelection

\* C2: getSelectionBounds() is null exactly when getSelection() is empty,
\* and otherwise holds the bounds computed over the current selection.
C2_BoundsNullIffEmpty ==
    /\ (selectionBounds = None) <=> (Len(selectedFeatures) = 0)
    /\ selectionBounds # None =>
          \A i \in 1..Len(selectedFeatures) :
             LET box == selectedFeatures[i].feature.box
                 bbox == selectionBounds[1].bbox
             IN /\ bbox[1] <= box[1] /\ bbox[2] <= box[2]
                /\ bbox[3] >= box[3] /\ bbox[4] >= box[4]

\* C2 witness: a deselect removed the last entry and left the bounds null.
C2_Witness ==
    /\ selEmitted # <<>>
    /\ selEmitted[1].type = "deselect"
    /\ Len(selectedFeatures) = 0
    /\ selectionBounds = None

RegisteredTools == {tools[i] : i \in DOMAIN tools}

\* C3: at most one tool is in state 'active' at any time, also after each
\* of the calls a registry method makes on its tools.
C3_AtMostOneActive ==
    /\ Cardinality(ActiveSet(toolState)) <= 1
    /\ \A i \in 1..Len(toolLog) : Cardinality(toolLog[i].activeAfter) <= 1

\* C3 witness: activateTool switched from one active tool to another.
C3_Witness ==
    /\ toolLast.op = "activate"
    /\ Len(toolLog) = 2
    /\ toolLog[1].emitted = <<"deactivate">>
    /\ toolLog[2].emitted = <<"activate">>
    /\ Cardinality(ActiveSet(toolState)) = 1

\* C4: activateTool(B) while a different registered tool A holds the slot
\* calls A.deactivate() exactly once, which has returned (A inactive) before
\* B.activate() is called, and leaves B in the slot.
C4_DeactivateThenActivate ==
    [][ ( /\ activeTool # NULL
          /\ activeTool \in RegisteredTools
          /\ toolLast'.op = "activate"
          /\ toolLast'.result # NULL
          /\ toolLast'.result # activeTool )
        => ( /\ Len(toolLog') = 2
             /\ toolLog'[1].call = "deactivate"
             /\ toolLog'[1].tool = activeTool
             /\ toolLog'[1].activeAfter = {}
             /\ toolLog'[2].call = "activate"
             /\ toolLog'[2].tool = toolLast'.result
             /\ activeTool' = toolLast'.result
             /\ toolState'[activeTool] = "inactive"
             /\ toolState'[activeTool'] = "active" ) ]_vars

\* C4 witness: the slot holds B after an activateTool that found A active.
C4_Witness ==
    /\ toolLast.op = "activate"
    /\ Len(toolLog) = 2
    /\ toolLog[1].tool # toolLog[2].tool
    /\ toolLog[1].tool \in RegisteredTools
    /\ activeTool = toolLog[2].tool

\* C5: a pointerdown over a draggable handle received while a DragSession
\* exists leaves the DragSession unchanged and emits no dragstart.
C5_SecondPointerDownIgnored ==
    [][ (dragState # None /\ hmLast'.op = "mousedown")
        => (dragState' = dragState /\ hmEmitted' = <<>>) ]_vars

\* C6: a pointerdown over a handle whose draggable is false creates no
\* DragSession and emits nothing; every DragSession and every emitted
\* event belongs to a handle that was draggable when its drag started.
C6_NonDraggableNeverStarts ==
    /\ [][ ( /\ hmLast'.op = "mousedown"
             /\ hmLast'.id \in DOMAIN handles
             /\ ~handles[hmLast'.id].draggable )
           => ( /\ dragState' = dragState
                /\ activeHandle' = activeHandle
                /\ hmEmitted' = <<>> ) ]_vars
    /\ [] ( /\ dragState # None => dragState[1].handle.draggable
            /\ \A i \in 1..Len(hmEmitted) : hmEmitted[i].handle.draggable )

\* C6 witness: a pointerdown over a stored, non-draggable handle was ignored.
C6_Witness ==
    /\ hmLast.op = "mousedown"
    /\ hmLast.id \in DOMAIN handles
    /\ ~handles[hmLast.id].draggable
    /\ dragState = None
    /\ hmEmitted = <<>>

\* a drag event has just been emitted for the handle of the DragSession
AfterDrag ==
    /\ hmLast.op = "mousemove"
    /\ dragState # None
    /\ Len(hmEmitted) = 1
    /\ hmEmitted[1].type = "drag"

DraggedHandle == dragState[1].handle

\* the constraints of the dragged handle, an absent property read as unset
DraggedLockAxis ==
    IF DraggedHandle.constraints = None THEN "none"
    ELSE DraggedHandle.constraints[1].lockAxis

DraggedSnapToGrid ==
    IF DraggedHandle.constraints = None THEN FALSE
    ELSE DraggedHandle.constraints[1].snapToGrid

\* the dragged handle, the event and the store agree on the position
DragPositionWritten ==
    /\ hmEmitted[1].position = DraggedHandle.position
    /\ dragState[1].currentPosition = DraggedHandle.position
    /\ DraggedHandle.id \in DOMAIN handles =>
          handles[DraggedHandle.id].position = DraggedHandle.position

\* C7 as stated: after every drag event a handle with lockAxis = x has the
\* initial longitude and one with lockAxis = y the initial latitude, for
\* every constraint combination.
C7_LockedAxisKeepsInitial ==
    AfterDrag =>
       /\ DraggedLockAxis = "x" =>
             DraggedHandle.position.lon = dragState[1].initialPosition.lon
       /\ DraggedLockAxis = "y" =>
             DraggedHandle.position.lat = dragState[1].initialPosition.lat

\* c is the value the locked coordinate takes for the initial value init
LockedValue(c, init) ==
    IF DraggedSnapToGrid
    THEN c % GridSize = 0 /\ 2 * c - 2 * init <= GridSize /\ 2 * init - 2 * c <= GridSize
    ELSE c = init

\* C7 amended: after every drag event the locked coordinate (longitude for
\* lockAxis = x, latitude for lockAxis = y) equals its initial value when
\* snapToGrid is off, and the grid multiple nearest to its initial value
\* when snapToGrid is on.
C7_LockedAxisAmended ==
    AfterDrag =>
       /\ DragPositionWritten
       /\ DraggedLockAxis = "x" =>
             LockedValue(DraggedHandle.position.lon, dragState[1].initialPosition.lon)
       /\ DraggedLockAxis = "y" =>
             LockedValue(DraggedHandle.position.lat, dragState[1].initialPosition.lat)

\* C7 witness: a drag event for a handle with lockAxis = x and snapToGrid
\* whose initial longitude is off the grid.
C7_Witness ==
    /\ AfterDrag
    /\ DraggedLockAxis = "x"
    /\ DraggedSnapToGrid
    /\ dragState[1].initialPosition.lon % GridSize # 0
    /\ DraggedHandle.position.lon # dragState[1].initialPosition.lon

\* C8 as stated: dragging a handle with lockAxis = x never changes its
\* latitude from the value captured at dragstart.
C8_LockXKeepsLatitude ==
    (AfterDrag /\ DraggedLockAxis = "x") =>
       DraggedHandle.position.lat = dragState[1].initialPosition.lat

\* C8 amended: no drag event changes the longitude of a handle dragged with
\* lockAxis = x and snapToGrid off; it is the latitude that follows the
\* pointer.
C8_LockXKeepsLongitude ==
    [][ ( /\ dragState # None
          /\ hmLast'.op = "mousemove"
          /\ DraggedLockAxis = "x"
          /\ ~DraggedSnapToGrid )
        => ( /\ dragState' # None
             /\ dragState'[1].handle.position.lon = DraggedHandle.position.lon
             /\ dragState'[1].handle.position.lon = dragState'[1].initialPosition.lon
             /\ hmEmitted'[1].position.lon = DraggedHandle.position.lon ) ]_vars

\* C8 witness: a drag event moved a handle with lockAxis = x in latitude
\* while its longitude stayed at the initial value.
C8_Witness ==
    /\ AfterDrag
    /\ DraggedLockAxis = "x"
    /\ ~DraggedSnapToGrid
    /\ DraggedHandle.position.lat # dragState[1].initialPosition.lat
    /\ DraggedHandle.position.lon = dragState[1].initialPosition.lon

C10_RoutedToActiveToolOnly ==
    [][ toolLast'.op = "route"
        => ( /\ IF activeTool = NULL
                THEN toolLog' = <<>>
                ELSE /\ Len(toolLog') = 1
                     /\ toolLog'[1].tool = activeTool
                     /\ toolLog'[1].call = HandlerFor(toolLast'.arg)
             /\ UNCHANGED <<tools, activeTool, toolState, toolForwarders>> ) ]_vars

\* C10 witness: an event was routed to the active tool while another tool
\* was registered too.
C10_Witness ==
    /\ toolLast.op = "route"
    /\ Len(toolLog) = 1
    /\ toolLog[1].tool = activeTool
    /\ Cardinality(RegisteredTools) = 2

\* C17: activateTool(id) returns null exactly when id is not registered, and
\* then the active-tool slot, the state of every tool and the tool map are
\* unchanged, no call is made on any tool and no tool event is emitted.
C17_ActivateUnknownNoChange ==
    [][ toolLast'.op = "activate"
        => /\ (toolLast'.result = NULL) <=> (toolLast'.arg \notin DOMAIN tools)
           /\ toolLast'.result = NULL =>
                 /\ UNCHANGED <<tools, activeTool, toolState, toolForwarders>>
                 /\ toolLog' = <<>> ]_vars

\* C17 witness: activateTool with an unregistered id returned null while a
\* registered tool was active.
C17_Witness ==
    /\ toolLast.op = "activate"
    /\ toolLast.result = NULL
    /\ toolLast.arg \notin DOMAIN tools
    /\ activeTool # NULL
    /\ toolState[activeTool] = "active"
    /\ toolLog = <<>>

\* C19: deselect(id) of a selected id removes that entry and keeps the
\* others in order, stores the bounds recomputed over the remaining
\* entries, emits deselect and returns true; deselect(id) of an id that is
\* not selected returns false, leaves selection and bounds as they were and
\* emits neither deselect nor change.
C19_DeselectEffectiveOrNoop ==
    [][ selLast'.op = "deselect"
        => LET i == IndexOfId(selectedFeatures, selLast'.arg)
           IN IF i # 0
              THEN /\ selLast'.result
                   /\ Len(selectedFeatures') = Len(selectedFeatures) - 1
                   /\ \A k \in 1..Len(selectedFeatures') :
                         selectedFeatures'[k] =
                            selectedFeatures[IF k < i THEN k ELSE k + 1]
                   /\ selectionBounds' = calculateSelectionBounds(selectedFeatures')
                   /\ Len(selEmitted') >= 1
                   /\ selEmitted'[1].type = "deselect"
                   /\ selEmitted'[1].selected = SelIds(selectedFeatures')
                   /\ selEmitted'[1].bounds = selectionBounds'
              ELSE /\ ~selLast'.result
                   /\ UNCHANGED <<selectedFeatures, selectionBounds>>
                   /\ selEmitted' = <<>> ]_vars

\* C19 witness: a deselect of an id that is not selected returned false on
\* a selection that holds other entries.
C19_Witness ==
    /\ selLast.op = "deselect"
    /\ ~selLast.result
    /\ Len(selectedFeatures) = 2
    /\ selectionBounds # None
    /\ selEmitted = <<>>

\* a call that changed the selection: select, clearSelection or a deselect
\* that removed an entry
SelMutated ==
    \/ selLast.op \in {"select", "clear"}
    \/ selLast.op = "deselect" /\ selLast.result

\* C20: every mutating call emits exactly two events, first the one of its
\* own type and after it the change event, which carries the same payload
\* with the type overwritten to 'change'.
C20_SpecificThenChange ==
    IF SelMutated
    THEN /\ Len(selEmitted) = 2
         /\ selEmitted[1].type = selLast.op
         /\ selEmitted[2] = [selEmitted[1] EXCEPT !.type = "change"]
         /\ selEmitted[1].selected = SelIds(selectedFeatures)
         /\ selEmitted[1].bounds = selectionBounds
    ELSE selEmitted = <<>>

\* C20 witness: an effective deselect emitted deselect and then change for
\* a selection that still holds an entry.
C20_Witness ==
    /\ selLast.op = "deselect"
    /\ selLast.result
    /\ Len(selEmitted) = 2
    /\ selEmitted[2].type = "change"
    /\ Len(selEmitted[2].selected) = 1

\* C18: removeHandle(id) with an id that is not in the store returns false,
\* and updateHandle, setHandlePosition and setHandleVisibility with such an
\* id return null; each leaves the handle set and the DragSession as they
\* were and emits nothing.
C18_UnknownIdNoChange ==
    [][ ( /\ hmLast'.op \in {"removeHandle", "updateHandle", "setHandlePosition",
                              "setHandleVisibility"}
          /\ hmLast'.id \notin DOMAIN handles )
        => ( /\ hmLast'.result = IF hmLast'.op = "removeHandle" THEN "false" ELSE NULL
             /\ UNCHANGED <<handles, dragState, activeHandle>>
             /\ hmEmitted' = <<>> ) ]_vars

\* C18 witness: setHandlePosition with an unknown id returned null while
\* the store held another handle and a DragSession existed.
C18_Witness ==
    /\ hmLast.op = "setHandlePosition"
    /\ hmLast.id \notin DOMAIN handles
    /\ hmLast.result = NULL
    /\ handles # EmptyMap
    /\ dragState # None

\* the handles of the tool's latest regeneration: the ids it keeps in
\* cornerHandles, edgeHandles and centerHandle
LatestRegeneration ==
    {selectionTool.cornerHandles[i] : i \in 1..Len(selectionTool.cornerHandles)}
    \cup {selectionTool.edgeHandles[i] : i \in 1..Len(selectionTool.edgeHandles)}
    \cup {selectionTool.centerHandle[i] : i \in 1..Len(selectionTool.centerHandle)}

\* the last input event ended with a regeneration of the tool's handles
Regenerated ==
    /\ stLog # <<>>
    /\ stLog[Len(stLog)] = "createHandlesForSelection"

\* C11: after every regeneration (click selection, box selection or
\* dragend) the handle store holds exactly the handles of the latest
\* regeneration, 4 corner and 4 midpoint handles plus at most one move
\* handle; the handles of earlier regenerations are gone, so the number of
\* handles does not grow.
C11_StoreHoldsLatestRegeneration ==
    Regenerated =>
        /\ DOMAIN handles = LatestRegeneration
        /\ Cardinality(DOMAIN handles) <= 9

\* C12: after deactivate() of the active SelectionTool has returned, the
\* handle store holds no handle that the tool created.
C12_DeactivateRemovesHandles ==
    (toolLast.op = "deactivate" /\ toolLast.result = "true") => DOMAIN handles = {}

\* the names of the tool's methods the last input event ran
StCalls == {stLog[i] : i \in 1..Len(stLog)}

\* a handle drag the tool has heard the dragstart of and not yet the dragend
InHandleDrag ==
    /\ activeTool # NULL
    /\ dragState # None
    /\ selectionTool.activeHandle # None

\* the step is a keydown of the Escape key
EscapeStep ==
    /\ toolLast'.op = "route"
    /\ toolLast'.arg = "keydown"
    /\ toolLast'.result = "Escape"

\* C13: an Escape key delivered to the active tool during a handle drag
\* clears the tool's handles, discards the transform session (active handle
\* and snapshotted bounds become null) and emits cancel; the dragend that
\* the later pointer-up produces performs no finalizeTransformation.
C13_EscapeDiscardsSession ==
    [][ /\ (InHandleDrag /\ EscapeStep) =>
              /\ DOMAIN handles' = {}
              /\ selectionTool'.activeHandle = None
              /\ selectionTool'.initialSelectionBounds = None
              /\ \E i \in 1..Len(toolLog') : "cancel" \in
                    {toolLog'[i].emitted[k] : k \in 1..Len(toolLog'[i].emitted)}
        /\ ( /\ toolLast.op = "route" /\ toolLast.arg = "keydown"
             /\ toolLast.result = "Escape"
             /\ toolLast'.op = "route" /\ toolLast'.arg = "mouseup" )
           => "finalizeTransformation" \notin {stLog'[i] : i \in 1..Len(stLog')} ]_vars

\* C14: the dragend of a handle drag whose handle moved from its initial
\* position writes transformed geometry back to the feature source: after
\* it the geometry of the selected features differs from the geometry
\* before the dragstart.
C14_DragEndCommitsGeometry ==
    [][ ( /\ InHandleDrag
          /\ dragState[1].currentPosition # dragState[1].initialPosition
          /\ selectedFeatures # <<>>
          /\ toolLast'.op = "route" /\ toolLast'.arg = "mouseup" )
        => \A i \in 1..Len(selectedFeatures) :
              sourceData'[selectedFeatures[i].id] # sourceData[selectedFeatures[i].id]
      ]_vars

\* the last input event was a mousemove that made the HandleManager emit a
\* drag event
DragEvent ==
    /\ toolLast.op = "route"
    /\ toolLast.arg = "mousemove"
    /\ hmEmitted # <<>>
    /\ hmEmitted[1].type = "drag"

\* C15: between a dragstart and the matching dragend no drag event changes
\* the selection set, the selection bounds or the geometry the feature
\* source holds.
C15_DragIsPreviewOnly ==
    [][ DragEvent' => UNCHANGED <<selectedFeatures, selectionBounds, sourceData>> ]_vars

\* C15 witness: a drag event moved a resize handle away from where its drag
\* started, the tool ran resizeSelection for it, and features are selected.
C15_Witness ==
    /\ DragEvent
    /\ dragState # None
    /\ dragState[1].currentPosition # dragState[1].initialPosition
    /\ "resizeSelection" \in StCalls
    /\ selectedFeatures # <<>>
    /\ selectionTool.initialSelectionBounds = selectionBounds

\* C16: regenerating the handles from bounds B and reading the positions
\* of the four corner (square, resize) handles back from the handle store
\* yields the corners (minX,maxY), (maxX,maxY), (maxX,minY), (minX,minY) of
\* B.bbox, in this order.
C16_CornerHandlesRoundTrip ==
    (Regenerated /\ selectionBounds # None) =>
        LET minX == selectionBounds[1].bbox[1]
            minY == selectionBounds[1].bbox[2]
            maxX == selectionBounds[1].bbox[3]
            maxY == selectionBounds[1].bbox[4]
            corner == selectionTool.cornerHandles
        IN /\ Len(corner) = 4
           /\ \A i \in 1..4 :
                 /\ corner[i] \in DOMAIN handles
                 /\ handles[corner[i]].type = "resize"
                 /\ handles[corner[i]].shape = "square"
           /\ handles[corner[1]].position = [lon |-> minX, lat |-> maxY]
           /\ handles[corner[2]].position = [lon |-> maxX, lat |-> maxY]
           /\ handles[corner[3]].position = [lon |-> maxX, lat |-> minY]
           /\ handles[corner[4]].position = [lon |-> minX, lat |-> minY]

\* C16 witness: a dragend regenerated the handles for bounds whose box is
\* not a square, after the dragged corner handle had been moved.
C16_Witness ==
    /\ Regenerated
    /\ "finalizeTransformation" \in StCalls
    /\ selectionBounds # None
    /\ selectionBounds[1].bbox = <<0, 0, 4, 2>>
    /\ Len(selectionTool.cornerHandles) = 4
    /\ \E id \in DOMAIN handles :
          /\ handles[id].shape = "square"
          /\ id \notin LatestRegeneration
          /\ handles[id].position = [lon |-> 1, lat |-> 1]

\* C21: activateTool(id) with the id of the tool that already is in the
\* active slot is a no-op: no deactivate and no activate event is emitted,
\* and the slot and the tool states are left as they were.
C21_ReactivateIsNoop ==
    [][ ( /\ toolLast'.op = "activate"
          /\ activeTool # NULL
          /\ MapGet(tools, toolLast'.arg) = activeTool )
        => ( /\ \A i \in 1..Len(toolLog') : toolLog'[i].emitted = <<>>
             /\ UNCHANGED <<activeTool, toolState>> ) ]_vars

\* C22: within one click or box selection that selects a feature the order
\* is select, recompute bounds, clear handles, regenerate handles, notify:
\* when a select or change listener is invoked, the handle store already
\* holds the corner handles this input event regenerated from the bounds
\* the event carries.
C22_ListenersSeeRegeneratedHandles ==
    [][ ( /\ toolLast'.op = "route"
          /\ toolLast'.arg \in {"click", "mouseup"} )
        => \A i \in 1..Len(selEmitted') :
              ( /\ selEmitted'[i].type \in {"select", "change"}
                /\ selEmitted'[i].bounds # None )
              => LET corners == CornerPositions(selEmitted'[i].bounds[1].bbox)
                     seen == selSeen'[i]
                 IN \A c \in 1..4 :
                       \E id \in DOMAIN seen \ DOMAIN handles :
                          /\ seen[id].shape = "square"
                          /\ seen[id].position = corners[c] ]_vars

\* C23: unregisterTool(id) of a registered id deactivates the tool first
\* if it is the active one (the slot becomes empty), then calls its
\* destroy, then removes it from the registry and returns true, and the
\* active slot does not hold the removed tool afterwards; with an unknown
\* id it returns false and changes nothing.
C23_UnregisterDeactivatesFirst ==
    [][ toolLast'.op = "unregister" =>
          LET toolId == toolLast'.arg
              tool == MapGet(tools, toolId)
              n == Len(toolLog')
          IN IF tool # NULL
             THEN /\ toolLast'.result = "true"
                  /\ toolId \notin DOMAIN tools'
                  /\ activeTool' # tool
                  /\ n >= 1
                  /\ toolLog'[n].call = "destroy"
                  /\ toolLog'[n].tool = tool
                  /\ toolLog'[n].activeAfter = toolLog'[1].activeAfter
                  /\ IF activeTool = tool
                     THEN /\ activeTool' = NULL
                          /\ toolState'[tool] = "inactive"
                          /\ n = 2
                          /\ toolLog'[1].call = "deactivate"
                          /\ toolLog'[1].tool = tool
                          /\ tool \notin toolLog'[1].activeAfter
                     ELSE /\ n = 1
                          /\ UNCHANGED <<activeTool, toolState>>
             ELSE /\ toolLast'.result = "false"
                  /\ toolLog' = <<>>
                  /\ UNCHANGED <<tools, activeTool, toolState, toolForwarders>> ]_vars

\* C23 witness: the active tool was unregistered; it emitted deactivate
\* before its destroy, and the slot is empty while another tool is still
\* registered.
C23_Witness ==
    /\ toolLast.op = "unregister"
    /\ toolLast.result = "true"
    /\ Len(toolLog) = 2
    /\ toolLog[1].emitted = <<"deactivate">>
    /\ toolLog[2].call = "destroy"
    /\ activeTool = NULL
    /\ DOMAIN tools # {}

\* C24: clearSelection() always leaves an empty selection and null bounds,
\* and on every call, also on a store that already was empty, it emits
\* clear and then change, both with an empty selected list and null bounds.
C24_ClearAlwaysEmits ==
    selLast.op = "clear" =>
        /\ selectedFeatures = <<>>
        /\ selectionBounds = None
        /\ selEmitted = << [type |-> "clear", selected |-> <<>>, bounds |-> None],
                           [type |-> "change", selected |-> <<>>, bounds |-> None] >>

\* C24 witness: clearSelection() was called on a store that held nothing
\* and emitted its two events.
C24_Witness ==
    /\ selLast.op = "clear"
    /\ ~selLast.result
    /\ Len(selEmitted) = 2
    /\ selEmitted[1].type = "clear"
    /\ selectedFeatures = <<>>

\* C25: a mousemove processed while a DragSession exists whose handle is
\* in the store leaves the stored handle's position, the session's
\* currentPosition and the position of the emitted event all equal to the
\* constraint resolution of the pointer position (with the session handle's
\* constraints and the session's initialPosition), and emits exactly one
\* drag event.
C25_DragWritesResolvedPosition ==
    [][ ( /\ hmLast'.op = "mousemove"
          /\ dragState # None
          /\ dragState[1].handle.id \in DOMAIN handles )
        => LET resolved == applyConstraints(dragState[1].handle, hmLast'.position)
           IN /\ dragState[1].handle.id \in DOMAIN handles'
              /\ handles'[dragState[1].handle.id].position = resolved
              /\ dragState' # None
              /\ dragState'[1].currentPosition = resolved
              /\ dragState'[1].initialPosition = dragState[1].initialPosition
              /\ Len(hmEmitted') = 1
              /\ hmEmitted'[1].type = "drag"
              /\ hmEmitted'[1].position = resolved
              /\ hmEmitted'[1].handle.id = dragState[1].handle.id ]_vars

\* C25 witness: a drag event for a stored handle with a locked axis and the
\* grid snap on, whose resolved position is not where the pointer is.
C25_Witness ==
    /\ AfterDrag
    /\ DraggedHandle.id \in DOMAIN handles
    /\ DraggedLockAxis = "y"
    /\ DraggedSnapToGrid
    /\ hmLast.position # hmEmitted[1].position
    /\ handles[DraggedHandle.id].position = hmEmitted[1].position
    /\ dragState[1].currentPosition # dragState[1].initialPosition

\* C26: a mouseup while dragging emits exactly one dragend, whose position
\* is the position of the session's last drag event (the initial position
\* if no mousemove occurred), and returns to idle: no DragSession and no
\* active handle.  A mousemove or mouseup while idle emits nothing and
\* changes no handle.  drag and dragend are emitted only while a
\* DragSession exists.
C26_DragStateMachine ==
    [][ /\ (hmLast'.op = "mouseup" /\ dragState # None) =>
              /\ Len(hmEmitted') = 1
              /\ hmEmitted'[1].type = "dragend"
              /\ hmEmitted'[1].handle.id = dragState[1].handle.id
              /\ hmEmitted'[1].position = dragState[1].currentPosition
              /\ dragState' = None
              /\ activeHandle' = NULL
              /\ handles' = handles
        /\ (hmLast'.op \in {"mousemove", "mouseup"} /\ dragState = None) =>
              /\ hmEmitted' = <<>>
              /\ UNCHANGED <<handles, dragState, activeHandle>>
        /\ (\E i \in 1..Len(hmEmitted') : hmEmitted'[i].type \in {"drag", "dragend"}) =>
              dragState # None
        \* currentPosition is the position of the session's last drag event
        /\ (dragState' # None /\ dragState' # dragState) =>
              IF hmLast'.op = "mousemove"
              THEN dragState'[1].currentPosition = hmEmitted'[1].position
              ELSE /\ hmLast'.op = "mousedown"
                   /\ dragState'[1].currentPosition = dragState'[1].initialPosition ]_vars

\* C26 witness: a mouseup ended a drag with one dragend for a handle that
\* is still in the store, at the position the event carries, away from the
\* map centre; the manager is idle again.
C26_Witness ==
    /\ hmLast.op = "mouseup"
    /\ Len(hmEmitted) = 1
    /\ hmEmitted[1].type = "dragend"
    /\ dragState = None
    /\ activeHandle = NULL
    /\ hmEmitted[1].handle.id \in DOMAIN handles
    /\ handles[hmEmitted[1].handle.id].position = hmEmitted[1].position
    /\ hmEmitted[1].position # MapCenter

\* the step is a mousedown whose dragstart the tool's listener receives
DragStartReceived ==
    /\ toolLast'.op = "route"
    /\ toolLast'.arg = "mousedown"
    /\ hmListeners > 0
    /\ hmEmitted' # <<>>
    /\ hmEmitted'[1].type = "dragstart"

\* the step is a mouseup whose dragend the tool's listener receives
DragEndReceived ==
    /\ toolLast'.op = "route"
    /\ toolLast'.arg = "mouseup"
    /\ hmListeners > 0
    /\ dragState # None

\* C27: a dragstart received by the active tool snapshots the current
\* selection bounds and records the dragged handle; every dragend received
\* while a handle is recorded clears the session (recorded handle and
\* snapshot both null) and regenerates the handles from the current
\* selection bounds; after a dragend no handle is recorded.
C27_TransformSession ==
    [][ /\ (DragStartReceived /\ activeTool # NULL) =>
              /\ selectionTool'.activeHandle = Some(hmEmitted'[1].handle.id)
              /\ selectionTool'.initialSelectionBounds = selectionBounds
        /\ (DragEndReceived /\ selectionTool.activeHandle # None) =>
              /\ selectionTool'.initialSelectionBounds = None
              /\ \E i \in 1..Len(stLog') : stLog'[i] = "createHandlesForSelection"
              /\ IF selectionBounds' = None
                 THEN selectionTool'.cornerHandles = <<>>
                 ELSE /\ Len(selectionTool'.cornerHandles) = 4
                      /\ \A i \in 1..4 :
                            /\ selectionTool'.cornerHandles[i] \notin DOMAIN handles
                            /\ handles'[selectionTool'.cornerHandles[i]].position =
                                  CornerPositions(selectionBounds'[1].bbox)[i]
        /\ DragEndReceived => selectionTool'.activeHandle = None ]_vars

\* C27 witness: a dragend ended a transform session that had a snapshot of
\* the bounds: the handles were regenerated and no session is left.
C27_Witness ==
    /\ toolLast.op = "route"
    /\ toolLast.arg = "mouseup"
    /\ Len(hmEmitted) = 1
    /\ hmEmitted[1].type = "dragend"
    /\ stLog = <<"finalizeTransformation", "createHandlesForSelection">>
    /\ selectionTool.activeHandle = None
    /\ selectionTool.initialSelectionBounds = None
    /\ selectionBounds # None
    /\ Len(selectionTool.cornerHandles) = 4

\* C28: after deactivate() has returned, none of the tool's dragstart, drag
\* and dragend listeners is registered on the HandleManager, for every
\* sequence of activate() and deactivate() calls, and a deactivated tool
\* does not react to a handle event.
C28_NoListenerAfterDeactivate ==
    [][ /\ selectionTool'.state = "inactive" => hmListeners' = 0
        /\ ( /\ selectionTool.state = "inactive"
             /\ toolLast'.op = "route"
             /\ hmEmitted' # <<>> )
           => /\ stLog' = <<>>
              /\ selectionTool'.activeHandle = selectionTool.activeHandle
              /\ selectionTool'.initialSelectionBounds =
                    selectionTool.initialSelectionBounds ]_vars

\* the step is a click routed to the SelectionTool, which is not in the
\* middle of a rubber-band drag
ClickHandled ==
    /\ toolLast'.op = "route"
    /\ toolLast'.arg = "click"
    /\ activeTool # NULL
    /\ selectionTool.dragStart = None

\* C29: handleClick in non-multi-select mode at a point where no feature is
\* found leaves an empty selection, null bounds, and no handle in the
\* handle store: the handles around the previous selection are removed.
C29_ClickOnNothingClearsHandles ==
    [][ (ClickHandled /\ ~selectionTool.multiSelect /\ toolLast'.hits = <<>>) =>
           /\ selectedFeatures' = <<>>
           /\ selectionBounds' = None
           /\ DOMAIN handles' = {} ]_vars

\* box is the smallest box around the geometry of the features with the
\* ids in hits
BoxAround(box, hits) ==
    LET boxes == {sourceData[hits[i]].box : i \in 1..Len(hits)}
    IN /\ \A b \in boxes : box[1] <= b[1] /\ box[2] <= b[2] /\ box[3] >= b[3] /\ box[4] >= b[4]
       /\ \A k \in 1..2 : \E b \in boxes : box[k] = b[k]
       /\ \A k \in 3..4 : \E b \in boxes : box[k] = b[k]

\* C30: handleClick hitting k >= 1 features.  In non-multi-select mode the
\* selection afterwards consists of exactly the hit features, only the last
\* one selected has isCurrentSelection = true, and the bounds are computed
\* over all k hits.  In multi-select mode the hits are added to the
\* existing selection with isCurrentSelection = false and nothing is
\* removed.
C30_ClickSelectsHits ==
    [][ (ClickHandled /\ toolLast'.hits # <<>>) =>
           LET hits == toolLast'.hits
               sel == selectedFeatures'
               ids(fs) == {fs[i].id : i \in 1..Len(fs)}
               hitIds == {hits[i] : i \in 1..Len(hits)}
           IN IF ~selectionTool.multiSelect
              THEN /\ SelIds(sel) = hits
                   /\ \A i \in 1..Len(sel) :
                         /\ sel[i].isCurrentSelection = (i = Len(sel))
                         /\ sel[i].feature = sourceData[hits[i]]
                   /\ selectionBounds' # None
                   /\ BoxAround(selectionBounds'[1].bbox, hits)
              ELSE /\ ids(sel) = ids(selectedFeatures) \cup hitIds
                   /\ \A i \in 1..Len(sel) :
                         sel[i].id \in hitIds => ~sel[i].isCurrentSelection
                   /\ \A i \in 1..Len(selectedFeatures) :
                         selectedFeatures[i].id \notin hitIds =>
                            \E j \in 1..Len(sel) : sel[j] = selectedFeatures[i] ]_vars

\* C30 witness: a click in non-multi-select mode hit features 1 and 2; both
\* are selected, feature 2 is the current one, and the bounds span both.
C30_Witness ==
    /\ toolLast.op = "route"
    /\ toolLast.arg = "click"
    /\ toolLast.hits = <<1, 2>>
    /\ activeTool # NULL
    /\ ~selectionTool.multiSelect
    /\ SelIds(selectedFeatures) = <<1, 2>>
    /\ ~selectedFeatures[1].isCurrentSelection
    /\ selectedFeatures[2].isCurrentSelection
    /\ selectionBounds # None
    /\ selectionBounds[1].bbox = <<-2, -2, 4, 2>>

\* the rubber-band box session of the tool is reset: no anchor, no current
\* corner, and the drag box layer is not shown
DragBoxReset(st) ==
    /\ st.dragStart = None
    /\ st.dragCurrent = None
    /\ ~st.dragBoxVisible

\* C31: every handleMouseUp on the active tool leaves the drag-box session
\* reset, whether or not the box exceeded the threshold and whether or not
\* a feature was found; so does every deactivate of the tool.
C31_DragBoxAlwaysReset ==
    [][ /\ (toolLast'.op = "route" /\ toolLast'.arg = "mouseup" /\ activeTool # NULL) =>
              DragBoxReset(selectionTool')
        /\ (\E i \in 1..Len(toolLog') : toolLog'[i].call = "deactivate") =>
              DragBoxReset(selectionTool') ]_vars

\* C31 witness: a mouseup completed a rubber band that exceeded the
\* threshold and found no feature (the selection was cleared and the
\* handles regenerated); the box is reset.
C31_Witness ==
    /\ toolLast.op = "route"
    /\ toolLast.arg = "mouseup"
    /\ hmEmitted = <<>>
    /\ stLog = <<"createHandlesForSelection">>
    /\ selLast.op = "clear"
    /\ Len(selEmitted) = 2
    /\ selectionTool.dragBoxLayer
    /\ DragBoxReset(selectionTool)

\* the step is a mouseup routed to the tool while its rubber band is open
\* and no handle drag ends
BoxMouseUp ==
    /\ toolLast'.op = "route"
    /\ toolLast'.arg = "mouseup"
    /\ activeTool # NULL
    /\ dragState = None
    /\ selectionTool.dragStart # None

\* C32: a handleMouseUp whose rubber band covers no more than 100 square
\* pixels leaves the selection set, the selection bounds and the handle
\* set unchanged and emits no selection event; a box strictly larger than
\* the threshold queries the features and selects them.
C32_SmallBoxSelectsNothing ==
    [][ BoxMouseUp =>
           IF toolLast'.boxSize <= 100
           THEN /\ UNCHANGED <<selectedFeatures, selectionBounds, handles>>
                /\ selEmitted' = <<>>
           ELSE /\ \A i \in 1..Len(toolLast'.hits) :
                      \E k \in 1..Len(selectedFeatures') :
                         selectedFeatures'[k].id = toolLast'.hits[i]
                /\ ~selectionTool.multiSelect => SelIds(selectedFeatures') = toolLast'.hits
                /\ \E i \in 1..Len(stLog') : stLog'[i] = "createHandlesForSelection" ]_vars

\* C32 witness: a rubber band of exactly 100 square pixels was released
\* over a selection with handles around it; nothing was selected or emitted.
C32_Witness ==
    /\ toolLast.op = "route"
    /\ toolLast.arg = "mouseup"
    /\ toolLast.boxSize = 100
    /\ activeTool # NULL
    /\ hmEmitted = <<>>
    /\ selEmitted = <<>>
    /\ selectedFeatures # <<>>
    /\ DOMAIN handles # {}
    /\ selectionTool.dragStart = None

\* the invocations of the last emitEvent that were given an event of one type
InvokedFor(type) ==
    SelectSeq(evInvoked, LAMBDA e : e.type = type)

\* the event types whose listeners an emitEvent(type) of the emitter reaches
TypesReached(type) ==
    IF evKind = "SelectionManager" /\ type # "change" THEN {type, "change"} ELSE {type}

\* C33: for each of the four emitters and each event type, an emission invokes
\* exactly the listeners that are registered for that type at that moment, each
\* once and in the order in which they were registered; a listener removed
\* with off() is not invoked, and no listener of another type is invoked
C33_ListenersInRegistrationOrder ==
    evLast.op = "emit" =>
        /\ \A i \in 1..Len(evInvoked) : evInvoked[i].type \in TypesReached(evLast.type)
        /\ \A type \in TypesReached(evLast.type) :
              LET inv == InvokedFor(type) IN
                /\ {inv[i].listener : i \in 1..Len(inv)} =
                      {l \in ListenerFns : evRegAt[type][l] # 0}
                /\ \A i, j \in 1..Len(inv) :
                      i < j => evRegAt[type][inv[i].listener] < evRegAt[type][inv[j].listener]

\* L1 was registered first, removed with off() and registered again after L2:
\* an emission invokes L2 and then L1
C33_Witness ==
    /\ evLast.op = "emit"
    /\ evKind = "ToolManager"
    /\ Len(evInvoked) = 2
    /\ evInvoked[1].listener = "L2"
    /\ evRegAt[evLast.type]["L2"] = 2
    /\ evRegAt[evLast.type]["L1"] = 3

\* a mouseup that ends a handle drag while the tool is active
DragEndMouseUp ==
    /\ toolLast'.op = "route"
    /\ toolLast'.arg = "mouseup"
    /\ activeTool # NULL
    /\ dragState # None

\* C34: with the tool active, a handle drag session and a rubber-band session
\* are never in progress at the same time (a mousedown over a draggable handle
\* starts only the handle drag), and the mouseup that ends a handle drag
\* runs no box selection: it leaves the selection set as it was
C34_HandleDragExcludesRubberBand ==
    /\ [] ( activeTool # NULL /\ dragState # None => selectionTool.dragStart = None )
    /\ [][ DragEndMouseUp => SelIds(selectedFeatures') = SelIds(selectedFeatures) ]_vars

\* C35: whenever a drag session exists, the handle it refers to is in the
\* handle store, whatever removeHandle and clearHandles calls come between
\* the pointer events, and every drag and dragend event is about a handle
\* that is in the store
C35_DragSessionHandleInStore ==
    /\ dragState # None => dragState[1].handle.id \in DOMAIN handles
    /\ \A i \in 1..Len(hmEmitted) :
          hmEmitted[i].type \in {"drag", "dragend"} =>
             hmEmitted[i].handle.id \in DOMAIN handles


\* a mousemove while a handle of the store is being dragged
DragMouseMove ==
    /\ hmLast'.op = "mousemove"
    /\ dragState # None
    /\ dragState[1].handle.id \in DOMAIN handles

\* C36: a mousemove during a drag changes only the position of the dragged
\* handle: every other handle is unchanged, and every other property of the
\* dragged handle keeps the value it has in the store, which is the value
\* last written through updateHandle, also when that call came after the
\* dragstart
C36_MouseMoveChangesOnlyPosition ==
    [][ DragMouseMove =>
           /\ DOMAIN handles' = DOMAIN handles
           /\ \A id \in DOMAIN handles :
                 IF id = dragState[1].handle.id
                 THEN handles'[id] = [handles[id] EXCEPT !.position = handles'[id].position]
                 ELSE handles'[id] = handles[id] ]_vars


\* C37: the tool in the active slot is one of the registered tools, the one
\* getTool returns for its id, also after a second tool was registered under
\* an id that was in use
C37_ActiveToolIsRegistered ==
    activeTool # NULL => MapGet(tools, ToolId(activeTool)) = activeTool

\* a deactivateTool call made while the slot was empty
DeactivateOnEmptySlot ==
    /\ toolLast'.op = "deactivate"
    /\ activeTool = NULL

\* C38: the active slot holds a tool exactly when some tool is in state
\* active; the tool in the slot is active and every other tool is inactive;
\* after deactivateTool the slot is empty and the tool it held is inactive;
\* deactivateTool on an empty slot returns false and changes nothing
C38_SlotMatchesToolStates ==
    /\ [] ( /\ activeTool # NULL <=> \E t \in ToolObjs : toolState[t] = "active"
            /\ \A t \in ToolObjs : toolState[t] = "active" <=> t = activeTool )
    /\ [][ toolLast'.op = "deactivate" =>
              /\ activeTool' = NULL
              /\ activeTool # NULL => toolState'[activeTool] = "inactive"
              /\ toolLast'.result = (IF activeTool # NULL THEN "true" ELSE "false") ]_vars
    /\ [][ DeactivateOnEmptySlot =>
              UNCHANGED <<tools, activeTool, toolState, toolForwarders>> ]_vars

\* C38 witness: the slot held an active tool while another tool was
\* registered, and deactivateTool has emptied the slot
C38_Witness ==
    /\ toolLast.op = "deactivate"
    /\ toolLast.result = "true"
    /\ activeTool = NULL
    /\ DOMAIN tools = {"a", "b"}
    /\ \A t \in ToolObjs : toolState[t] = "inactive"


\* C39: every lifecycle event a registered tool emits is delivered to the
\* registry-level listeners of its type exactly once per emission, whatever
\* registerTool and unregisterTool calls came before, also when registerTool
\* was called more than once with the same tool
C39_EventsBubbleOnce ==
    \A i \in 1..Len(toolLog) :
       (\E id \in DOMAIN tools : tools[id] = toolLog[i].tool) =>
          toolLog[i].delivered = Len(toolLog[i].emitted)

====
